---- MODULE Spec2Model ----
(***************************************************************************)
(* Verification model of the multi-provider history synchronisation        *)
(* engine: credential store (CookieService / CookieCache), the provider    *)
(* sync algorithms (Bilibili, Xiaoyuzhou, YouTube) against the history     *)
(* table, and the sync orchestrator (syncHistory).                         *)
(***************************************************************************)
EXTENDS Integers, Sequences, FiniteSets, TLC

(***************************************************************************)
(* Bounds of the model (not program constants).                            *)
(***************************************************************************)
MaxTicks == 2
MaxCookies == 1
MaxCalls == 2
MaxAuthErrs == 2
MaxNetErrs == 1
MaxPageLen == 1
MaxBiliPages == 2
MaxSyncs == 3
MaxXyzPages == 3
MaxCfgPages == 2
MaxYtEntries == 3
MaxStreamPages == 3
MaxRestarts == 1
MaxCdpItems == 2
MaxDeletes == 2
MaxAuthRequests == 5
MaxCfgAttempts == 2
MaxWalkIds == 3
MaxRequests == 2
MaxDomainLen == 3
MaxKeys == 2

\* Records in one page of the histories with a record the table cannot take
MaxBatchLen == 2

\* Requests one sync sends to a server that never answers with an empty page
MaxBiliRequests == 4

\* The largest day number a day header is read with
MaxDayOfMonth == 31

(***************************************************************************)
(* Program constants.                                                      *)
(***************************************************************************)
REFRESH_BUFFER_SECONDS == 300
DEFAULT_CACHE_TTL == 86400
DupThreshold == 30

\* The clock at the start of the process.
StartTime == 1000

VARIABLES
  \* ---- credential store (services/cookie.js, utils/cookieCache.js) ----
  cloudEnabled,   \* CookieService.cookieCloudClient !== null
  staticCookie,   \* config.providers[platform].cookie  (<<>> = not configured)
  ccDomain,       \* platforms whose CookieCloud domain is resolvable (_getDomain)
  cache,          \* contents of data/cookie_cache.json, per platform
  now,            \* wall clock, seconds (Math.floor(Date.now() / 1000))
  ticks,          \* number of clock advances so far (bounded)
  calls,          \* number of credential-store calls so far (bounded)
  lastGet,        \* observation of the most recent getCookie / refreshCookie call
  \* ---- configuration and remote services (fixed after start-up) ----
  enabled,        \* config.providers[name].enabled
  biliRemote,     \* Bilibili: the pages the cursor API serves, in order
  biliRepeats,    \* Bilibili: the API serves its last page again instead of an empty one
  xyzRemote,      \* Xiaoyuzhou: the pages the history API serves, in order
  xyzTrailingKey, \* Xiaoyuzhou: does the last page carry a loadMoreKey
  xyzCfg,         \* Xiaoyuzhou: accessToken, refreshToken, deviceId of config.json
  xyzMaxPages,    \* Xiaoyuzhou: this.maxPages
  ytRemote,       \* YouTube: the entries of the watch-history feed, newest first
  ytFirstSyncCount, \* YouTube: this.firstSyncCount
  \* ---- history table (db/index.js) ----
  store,          \* rows of table `history`
  \* ---- provider state ----
  brun,           \* per caller: locals and position of its BilibiliProvider.sync()
  xrun,           \* per caller: locals and position of its XiaoyuzhouProvider.sync()
  yrun,           \* per caller: locals and position of its YouTubeProvider.sync()
  xyzTok,         \* Xiaoyuzhou: _accessToken, _refreshToken, _deviceId, _tokenInitialized
  xyzFile,        \* Xiaoyuzhou: data/xiaoyuzhou_token_state.json
  xyzLastSyncTime, \* Xiaoyuzhou: lastSyncTime of the sync state file (0 = never)
  ytLastSyncTime, \* YouTube: lastSyncTime of the sync state file (0 = never)
  authErrs,       \* auth-error answers given by the remotes so far (bounded)
  netErrs,        \* failing answers (transport, HTTP status, API code) so far (bounded)
  syncsLeft,      \* per caller: sync() calls it may still start (bounded)
  last,           \* per caller: the provider of its most recent sync() call
  xyzSeen,        \* Xiaoyuzhou: what has been observed of tokens and device ids
  crun,           \* locals and position of the YouTubeCDPProvider.sync() call
  cdpLastSyncTime, \* YouTube-CDP: lastSyncTime of the sync state file (0 = never)
  del,            \* locals and position of the DELETE /api/history/:id request
  auth,           \* password gate: attemptRecords and the answer to the latest request
  req,            \* fetchWithRetry: the logical request in progress and the finished ones
  lookup,         \* CookieCloudClient: the latest domain lookup
  parse,          \* YouTubeCDPProvider: the latest _parseDateString call
  tmpFiles,       \* temporary cookie files on disk (./data/tmp_<platform>_cookie.txt)
  orch            \* locals and position of the syncHistory() call

cookieVars == <<cloudEnabled, staticCookie, ccDomain, cache, now, ticks, calls, lastGet>>

cfgVars == <<enabled, biliRemote, biliRepeats, xyzRemote, xyzTrailingKey, xyzCfg, xyzMaxPages,
             ytRemote, ytFirstSyncCount>>

syncVars == <<store, brun, xrun, yrun, xyzTok, xyzFile, xyzLastSyncTime, ytLastSyncTime,
              authErrs, netErrs, syncsLeft, last, xyzSeen, crun, cdpLastSyncTime, del, auth, req, lookup, parse, tmpFiles, orch>>

vars == <<cloudEnabled, staticCookie, ccDomain, cache, now, ticks, calls, lastGet,
          enabled, biliRemote, biliRepeats, xyzRemote, xyzTrailingKey, xyzCfg, xyzMaxPages,
          ytRemote, ytFirstSyncCount,
          store, brun, xrun, yrun, xyzTok, xyzFile, xyzLastSyncTime, ytLastSyncTime,
          authErrs, netErrs, syncsLeft, last, xyzSeen, crun, cdpLastSyncTime, del, auth, req, lookup, parse, tmpFiles, orch>>

(***************************************************************************)
(* Credential store                                                        *)
(***************************************************************************)
CookiePlatforms == {"bilibili", "youtube"}

\* A cookie string "n1=v1; n2=v2" is the sequence of its name=value parts;
\* the empty string is the empty sequence.
EmptyString == <<>>

\* The cache entry of a platform; present = FALSE is `cache.platforms[p]` undefined.
\* expires = 0 is `expires: null` (no cookie of the jar carries an expiry).
NoEntry == [present |-> FALSE, cookie |-> EmptyString, expires |-> 0, cachedAt |-> 0]

\* Clock advances the model explores.
TickSteps == {1, DEFAULT_CACHE_TTL - REFRESH_BUFFER_SECONDS}

\* Expiry of a cookie delivered by the cloud, relative to the time of the fetch
\* (0 = the cookie has no expiry field).
ExpDeltas == {REFRESH_BUFFER_SECONDS, REFRESH_BUFFER_SECONDS + 1}

CookieValues == {"", "v1"}

CloudCookies(t) ==
  [name : {"SESSDATA"}, value : CookieValues, exp : {0} \cup {t + d : d \in ExpDeltas}]

RECURSIVE SeqsUpTo(_, _)
SeqsUpTo(S, n) ==
  IF n = 0 THEN {<<>>}
  ELSE LET shorter == SeqsUpTo(S, n - 1)
       IN shorter \cup {Append(s, x) : s \in {q \in shorter : Len(q) = n - 1}, x \in S}

\* What the CookieCloud server and its decryption can produce at time t:
\* a failure (network, HTTP status, empty body, decryption), or the cookie list
\* of the looked-up domain (an empty list when the domain is not found).
CloudResponses(t) ==
  {[ok |-> FALSE, cookies |-> <<>>]}
    \cup {[ok |-> TRUE, cookies |-> cs] : cs \in SeqsUpTo(CloudCookies(t), MaxCookies)}

\* CookieCloudClient._buildCookieString
buildCookieString(cookies) ==
  LET keep(c) == c.name # "" /\ c.value # ""
      kept == SelectSeq(cookies, keep)
  IN [i \in 1..Len(kept) |-> <<kept[i].name, kept[i].value>>]

\* CookieCloudClient._getEarliestExpiration (0 = null)
getEarliestExpiration(cookies) ==
  LET exps == {cookies[i].exp : i \in 1..Len(cookies)} \ {0}
  IN IF exps = {} THEN 0 ELSE CHOOSE e \in exps : \A f \in exps : e <= f

\* CookieCloudClient.getCookiesForDomain: threw, or {cookie, expires}
getCookiesForDomain(cloud) ==
  IF ~cloud.ok \/ Len(cloud.cookies) = 0
  THEN [threw |-> TRUE, cookie |-> EmptyString, expires |-> 0]
  ELSE [threw |-> FALSE, cookie |-> buildCookieString(cloud.cookies),
        expires |-> getEarliestExpiration(cloud.cookies)]

\* CookieCache.getPlatformCache
getPlatformCache(c, p) == c[p]

\* CookieCache.setPlatformCache
setPlatformCache(c, p, data, t) ==
  [c EXCEPT ![p] = [present |-> TRUE, cookie |-> data.cookie,
                    expires |-> data.expires, cachedAt |-> t]]

\* isValid with the freshness comparison off by one (>= instead of >).
isValid_OffByOne(c, p, t) ==
  LET platformCache == c[p]
  IN IF ~platformCache.present THEN FALSE
     ELSE IF platformCache.expires # 0
          THEN ~(t >= platformCache.expires - REFRESH_BUFFER_SECONDS)
     ELSE IF platformCache.cachedAt # 0
          THEN ~(t >= platformCache.cachedAt + DEFAULT_CACHE_TTL - REFRESH_BUFFER_SECONDS)
     ELSE FALSE

\* CookieCache.isValid
isValid(c, p, t) ==
  LET platformCache == getPlatformCache(c, p)
  IN IF ~platformCache.present THEN FALSE
     ELSE IF platformCache.expires # 0
          THEN ~(t > platformCache.expires - REFRESH_BUFFER_SECONDS)
     ELSE IF platformCache.cachedAt # 0
          THEN ~(t > platformCache.cachedAt + DEFAULT_CACHE_TTL - REFRESH_BUFFER_SECONDS)
     ELSE FALSE

\* invalidate that drops the entries of all platforms, as clear() does.
invalidate_AllPlatforms(c, p) == [q \in CookiePlatforms |-> NoEntry]

\* CookieCache.invalidate
invalidate(c, p) == [c EXCEPT ![p] = NoEntry]

\* CookieService.isCookieCloudEnabled
isCookieCloudEnabled == cloudEnabled

\* CookieService._getStaticCookie: throws when no cookie is configured
getStaticCookie(c, p) ==
  [threw |-> staticCookie[p] = EmptyString, val |-> staticCookie[p], cache |-> c,
   fromCache |-> FALSE, contacted |-> FALSE, source |-> "static"]

\* CookieService._fetchFromCookieCloud: _getDomain may throw before the cloud is
\* contacted; on success the result is written to the cache and returned.
fetchFromCookieCloud(c, p, t, cloud) ==
  IF p \notin ccDomain
  THEN [threw |-> TRUE, val |-> EmptyString, cache |-> c,
        fromCache |-> FALSE, contacted |-> FALSE, source |-> "cloud"]
  ELSE LET result == getCookiesForDomain(cloud)
       IN IF result.threw
          THEN [threw |-> TRUE, val |-> EmptyString, cache |-> c,
                fromCache |-> FALSE, contacted |-> TRUE, source |-> "cloud"]
          ELSE [threw |-> FALSE, val |-> result.cookie,
                cache |-> setPlatformCache(c, p, result, t),
                fromCache |-> FALSE, contacted |-> TRUE, source |-> "cloud"]

\* CookieService.getCookie
getCookie(c, p, t, cloud) ==
  IF ~isCookieCloudEnabled THEN getStaticCookie(c, p)
  ELSE IF isValid(c, p, t) /\ getPlatformCache(c, p).cookie # EmptyString
  THEN [threw |-> FALSE, val |-> getPlatformCache(c, p).cookie, cache |-> c,
        fromCache |-> TRUE, contacted |-> FALSE, source |-> "cache"]
  ELSE LET fetched == fetchFromCookieCloud(c, p, t, cloud)
       IN IF ~fetched.threw THEN fetched
          ELSE [getStaticCookie(c, p) EXCEPT !.contacted = fetched.contacted]

\* refreshCookie that resolves without dropping the cache entry first.
refreshCookie_NoInvalidate(c, p, force, t, cloud) == getCookie(c, p, t, cloud)

\* CookieService.refreshCookie
refreshCookie(c, p, force, t, cloud) ==
  getCookie(IF force THEN invalidate(c, p) ELSE c, p, t, cloud)

\* ---- actions of the credential store ----

\* The cloud source did not deliver a credential for the platform: the domain is
\* unknown, the request or the decryption failed, or the domain has no cookies.
CloudFailed(p, cloud) == p \notin ccDomain \/ ~cloud.ok \/ Len(cloud.cookies) = 0

Observe(kind, p, force, cloud, r) ==
  [called |-> TRUE, seq |-> calls + 1, kind |-> kind, platform |-> p, force |-> force, at |-> now,
   before |-> cache[p], cloudFailed |-> CloudFailed(p, cloud),
   after |-> r.cache[p], threw |-> r.threw, val |-> r.val,
   fromCache |-> r.fromCache, contacted |-> r.contacted, source |-> r.source]

NoObservation ==
  [called |-> FALSE, seq |-> 0, kind |-> "none", platform |-> "bilibili", force |-> FALSE, at |-> 0,
   before |-> NoEntry, cloudFailed |-> FALSE, after |-> NoEntry, threw |-> FALSE,
   val |-> EmptyString,
   fromCache |-> FALSE, contacted |-> FALSE, source |-> "none"]

GetCookie(p) ==
  /\ calls < MaxCalls
  /\ \E cloud \in CloudResponses(now) :
       LET r == getCookie(cache, p, now, cloud)
       IN /\ cache' = r.cache
          /\ lastGet' = Observe("get", p, FALSE, cloud, r)
  /\ calls' = calls + 1
  /\ UNCHANGED <<cloudEnabled, staticCookie, ccDomain, now, ticks>>
  /\ UNCHANGED <<cfgVars, syncVars>>

RefreshCookie(p) ==
  /\ calls < MaxCalls
  /\ \E force \in BOOLEAN, cloud \in CloudResponses(now) :
       LET r == refreshCookie(cache, p, force, now, cloud)
       IN /\ cache' = r.cache
          /\ lastGet' = Observe("refresh", p, force, cloud, r)
  /\ calls' = calls + 1
  /\ UNCHANGED <<cloudEnabled, staticCookie, ccDomain, now, ticks>>
  /\ UNCHANGED <<cfgVars, syncVars>>

\* CookieService.invalidateCache
InvalidateCache(p) ==
  /\ calls < MaxCalls
  /\ cache[p].present
  /\ cache' = invalidate(cache, p)
  /\ calls' = calls + 1
  /\ UNCHANGED <<cloudEnabled, staticCookie, ccDomain, now, ticks, lastGet>>
  /\ UNCHANGED <<cfgVars, syncVars>>

Tick ==
  /\ ticks < MaxTicks
  /\ \E d \in TickSteps : now' = now + d
  /\ ticks' = ticks + 1
  /\ UNCHANGED <<cloudEnabled, staticCookie, ccDomain, cache, calls, lastGet>>
  /\ UNCHANGED <<cfgVars, syncVars>>

(***************************************************************************)
(* History table                                                           *)
(***************************************************************************)

\* One row of table `history`; the primary key is (id, platform).
Row(id, platform, viewTime) == [id |-> id, platform |-> platform, viewTime |-> viewTime]

\* Rows matched by `WHERE id = ? AND platform = ?`
RowsByKey(st, id, platform) == {r \in st : r.id = id /\ r.platform = platform}

\* stmts.getById.get(id, platform): is there a row (existing !== undefined)
hasRow(st, id, platform) == RowsByKey(st, id, platform) # {}

\* stmts.getById.get(id, platform): the first matching row
getById(st, id, platform) == CHOOSE r \in RowsByKey(st, id, platform) : TRUE

\* The value of a property the API's record does not have
Undefined == "<undefined>"

\* A row one of whose column values the statement cannot bind: run() raises a
\* TypeError for undefined and executes nothing.
Unbindable(row) == "title" \in DOMAIN row /\ row.title = Undefined

\* INSERT without the existence check of the caller: no primary-key lookup first.
dbInsert_NoKeyCheck(st, row) == [threw |-> FALSE, store |-> st \cup {row}]

\* `INSERT INTO history`: a row with an existing primary key raises
\* SQLITE_CONSTRAINT_PRIMARYKEY, a row with an undefined column value a
\* TypeError; either stores nothing.
dbInsert(st, row) ==
  IF Unbindable(row) \/ hasRow(st, row.id, row.platform)
  THEN [threw |-> TRUE, store |-> st]
  ELSE [threw |-> FALSE, store |-> st \cup {row}]

\* `INSERT OR IGNORE INTO history`: a row with an existing primary key is dropped.
dbInsertOrIgnore(st, row) ==
  IF hasRow(st, row.id, row.platform) THEN st ELSE st \cup {row}

\* The columns of a row that `values` holds replace the stored ones.
SetColumns(r, columns, values) ==
  [f \in DOMAIN r |-> IF f \in columns THEN values[f] ELSE r[f]]

\* An UPDATE that overwrites every column of the row with the fetched record.
dbUpdateViewTime_AllColumns(st, item) ==
  {IF r.id = item.id /\ r.platform = item.platform
   THEN SetColumns(r, DOMAIN r, item) ELSE r : r \in st}

\* `UPDATE history SET view_time = ?, timestamp = ? WHERE id = ? AND platform = ?`
dbUpdateViewTime(st, item) ==
  {IF r.id = item.id /\ r.platform = item.platform
   THEN SetColumns(r, {"viewTime", "timestamp"}, item) ELSE r : r \in st}

\* `DELETE FROM history WHERE id = ?`
dbDeleteById(st, id) == {r \in st : r.id # id}


(***************************************************************************)
(* Callers of sync()                                                       *)
(***************************************************************************)

\* The two places that start a sync: the auto-sync timers and the manual route.
SyncCallers == {"timer", "manual"}

Providers == {"bilibili", "xiaoyuzhou", "youtube"}

RunActive(pc) == pc \notin {"idle", "done", "failed"}

\* A caller awaits the sync() it started before it starts the next one.
Busy(c) ==
  \/ RunActive(brun[c].pc) \/ RunActive(xrun[c].pc) \/ RunActive(yrun[c].pc)
  \/ (last[c] = "youtube-cdp" /\ RunActive(crun.pc))

CanCall(c) == ~Busy(c) /\ syncsLeft[c] > 0

Called(c, p) ==
  /\ syncsLeft' = [syncsLeft EXCEPT ![c] = @ - 1]
  /\ last' = [last EXCEPT ![c] = p]

\* Number of entries e in a log
Count(log, e) == Cardinality({i \in 1..Len(log) : log[i] = e})

(***************************************************************************)
(* Bilibili provider                                                       *)
(***************************************************************************)

\* BilibiliProvider.normalizeItem.  A raw record is [oid, view_at], or
\* [oid, view_at, title] in the histories that carry the descriptive columns;
\* title stands for all of them, timestamp is the time of recording.
biliNormalizeItem(rawItem) ==
  IF "title" \in DOMAIN rawItem
  THEN [id |-> rawItem.oid, platform |-> "bilibili", viewTime |-> rawItem.view_at,
        title |-> rawItem.title, timestamp |-> now]
  ELSE [id |-> rawItem.oid, platform |-> "bilibili", viewTime |-> rawItem.view_at]

\* The loop over data.data.list that skips ids in processedIds.
RECURSIVE biliCollectItems(_, _, _)
biliCollectItems(list, processedIds, items) ==
  IF list = <<>> THEN [items |-> items, processedIds |-> processedIds]
  ELSE IF Head(list).oid \in processedIds
       THEN biliCollectItems(Tail(list), processedIds, items)
       ELSE biliCollectItems(Tail(list), processedIds \cup {Head(list).oid},
                             Append(items, biliNormalizeItem(Head(list))))

\* The loop body of batchInsert that inserts without looking the item up first.
biliInsertItem_NoLookup(acc, item) ==
  LET ins == dbInsert(acc.store, item)
  IN [acc EXCEPT !.store = ins.store, !.threw = ins.threw,
                 !.newCount = IF ins.threw THEN @ ELSE @ + 1]

\* The loop body of batchInsert: getById, then insert, updateViewTime or nothing.
\* acc = [store, newCount, updateCount, threw]
biliInsertItem(acc, item) ==
  IF ~hasRow(acc.store, item.id, "bilibili")
  THEN LET ins == dbInsert(acc.store, item)
       IN [acc EXCEPT !.store = ins.store, !.threw = ins.threw,
                      !.newCount = IF ins.threw THEN @ ELSE @ + 1]
  ELSE IF getById(acc.store, item.id, "bilibili").viewTime # item.viewTime
  THEN [acc EXCEPT !.store = dbUpdateViewTime(@, item),
                   !.updateCount = @ + 1]
  ELSE acc

\* The body of the batchInsert transaction: the loop over items, left by a throw.
RECURSIVE biliBatchInsert(_, _)
biliBatchInsert(acc, items) ==
  IF items = <<>> \/ acc.threw THEN acc
  ELSE biliBatchInsert(biliInsertItem(acc, Head(items)), Tail(items))

\* The batch run without a transaction: the writes before a throw stay.
biliTransaction_NoRollback(st, newCount, updateCount, items) ==
  biliBatchInsert([store |-> st, newCount |-> newCount,
                   updateCount |-> updateCount, threw |-> FALSE], items)

\* db.transaction(batchInsert)(items): all or nothing.
biliTransaction(st, newCount, updateCount, items) ==
  LET r == biliBatchInsert([store |-> st, newCount |-> newCount,
                            updateCount |-> updateCount, threw |-> FALSE], items)
  IN IF r.threw THEN [r EXCEPT !.store = st] ELSE r

\* The page the cursor API answers with for the k-th request of a walk;
\* an empty list once the history is exhausted.
biliPage(k) ==
  IF k <= Len(biliRemote) THEN biliRemote[k]
  ELSE IF biliRepeats /\ biliRemote # <<>> THEN biliRemote[Len(biliRemote)]
  ELSE <<>>

\* What happens to each record of a fetched list, in list order: "repeat" (id
\* already seen in this run), "new", "updated" or "same".
RECURSIVE RecordStatuses(_, _, _, _)
RecordStatuses(list, seen, st, out) ==
  IF list = <<>> THEN out
  ELSE LET raw == Head(list)
       IN IF raw.oid \in seen
          THEN RecordStatuses(Tail(list), seen, st, Append(out, "repeat"))
          ELSE IF ~hasRow(st, raw.oid, "bilibili")
          THEN RecordStatuses(Tail(list), seen \cup {raw.oid},
                              st \cup {biliNormalizeItem(raw)}, Append(out, "new"))
          ELSE IF getById(st, raw.oid, "bilibili").viewTime # raw.view_at
          THEN RecordStatuses(Tail(list), seen \cup {raw.oid},
                              dbUpdateViewTime(st, biliNormalizeItem(raw)),
                              Append(out, "updated"))
          ELSE RecordStatuses(Tail(list), seen \cup {raw.oid}, st, Append(out, "same"))

Changed(status) == status \in {"new", "updated"}

\* Length of the run of consecutive unchanged records at the end of the walk, and
\* whether a run of DupThreshold unchanged records has been seen at any point.
RECURSIVE TrackStreak(_, _, _)
TrackStreak(statuses, streak, hit) ==
  IF statuses = <<>> THEN [streak |-> streak, hit |-> hit]
  ELSE LET n == IF Changed(Head(statuses)) THEN 0 ELSE streak + 1
       IN TrackStreak(Tail(statuses), n, hit \/ n >= DupThreshold)

\* The locals of sync() and, below them, what the run has been seen to do.
IdleBiliRun ==
  [pc |-> "idle", isRetry |-> FALSE, page |-> 1, newCount |-> 0, updateCount |-> 0,
   processedIds |-> {}, noUpdateCount |-> 0, stop |-> "none",
   log |-> <<>>, streak |-> 0, streakHit |-> FALSE, fetchedPast |-> FALSE,
   pageStreak |-> 0, pageHit |-> FALSE, prevOk |-> FALSE, changed |-> FALSE,
   before |-> {}]

\* BilibiliProvider.canRefreshFromCloud
canRefreshFromCloud == isCookieCloudEnabled

\* BilibiliProvider.validateConfig
biliValidateConfig ==
  enabled["bilibili"] /\ (isCookieCloudEnabled \/ staticCookie["bilibili"] # EmptyString)

\* BilibiliProvider.getCookie: the credential store's answer, or the static
\* config.cookie when the store throws.
biliGetCookie(c, forceRefresh, t, cloud) ==
  LET r == IF forceRefresh THEN refreshCookie(c, "bilibili", TRUE, t, cloud)
           ELSE getCookie(c, "bilibili", t, cloud)
  IN IF r.threw
     THEN [r EXCEPT !.threw = staticCookie["bilibili"] = EmptyString,
                    !.val = staticCookie["bilibili"]]
     ELSE r

\* Cloud answers explored while a sync runs.
SyncCloudResponses(t) ==
  {[ok |-> FALSE, cookies |-> <<>>],
   [ok |-> TRUE, cookies |-> <<[name |-> "SESSDATA", value |-> "v1",
                                exp |-> t + REFRESH_BUFFER_SECONDS + 1]>>]}

\* sync() up to `await this.getCookie()`: validateConfig and the fresh locals.
biliStartRun(prevOk) ==
  IF biliValidateConfig
  THEN [IdleBiliRun EXCEPT !.pc = "cookie", !.prevOk = prevOk, !.before = store]
  ELSE [IdleBiliRun EXCEPT !.pc = "failed", !.stop = "config", !.prevOk = prevOk,
                           !.before = store]

\* The auth-error branch that retries although the call is already the retry.
biliOnAuthError_RetryAgain(run) ==
  IF ~canRefreshFromCloud THEN [run EXCEPT !.pc = "failed", !.stop = "auth"]
  ELSE [run EXCEPT !.pc = "refresh"]

\* `if (this.isAuthError(data))`: throw when this call is the retry or the cloud
\* source cannot refresh, otherwise go on to refresh and retry.
biliOnAuthError(run) ==
  IF run.isRetry \/ ~canRefreshFromCloud THEN [run EXCEPT !.pc = "failed", !.stop = "auth"]
  ELSE [run EXCEPT !.pc = "refresh"]

\* A caller calls provider.sync().
BiliStart(c) ==
  /\ CanCall(c)
  /\ Called(c, "bilibili")
  /\ brun' = [brun EXCEPT ![c] = biliStartRun(last[c] = "bilibili" /\ brun[c].pc = "done")]
  /\ UNCHANGED <<store, xrun, yrun, xyzTok, xyzFile, xyzSeen, crun, cdpLastSyncTime, del, auth, req, lookup, parse, tmpFiles, xyzLastSyncTime, ytLastSyncTime,
                 authErrs, netErrs, orch>>
  /\ UNCHANGED <<cookieVars, cfgVars>>

\* `const cookie = await this.getCookie()`
BiliGetCookie(c) ==
  /\ brun[c].pc = "cookie"
  /\ \E cloud \in SyncCloudResponses(now) :
       LET r == biliGetCookie(cache, FALSE, now, cloud)
       IN /\ cache' = r.cache
          /\ brun' = [brun EXCEPT ![c] =
               IF r.threw THEN [@ EXCEPT !.pc = "failed", !.stop = "cookie"]
               ELSE [@ EXCEPT !.pc = "fetch"]]
  /\ UNCHANGED <<store, xrun, yrun, xyzTok, xyzFile, xyzSeen, crun, cdpLastSyncTime, del, auth, req, lookup, parse, tmpFiles, xyzLastSyncTime, ytLastSyncTime,
                 authErrs, netErrs, syncsLeft, last, orch>>
  /\ UNCHANGED <<cloudEnabled, staticCookie, ccDomain, now, ticks, calls, lastGet>>
  /\ UNCHANGED cfgVars

\* One iteration of `while (hasMore)` whose request fails: fetchWithRetry throws,
\* the status is not ok, or the API code is neither 0 nor an auth error.
BiliFetchFails(c) ==
  /\ brun[c].pc = "fetch"
  /\ netErrs < MaxNetErrs
  /\ netErrs' = netErrs + 1
  /\ brun' = [brun EXCEPT ![c] =
       [@ EXCEPT !.pc = "failed", !.stop = "error", !.log = Append(@, "error"),
                 !.fetchedPast = @ \/ brun[c].streakHit]]
  /\ UNCHANGED <<store, xrun, yrun, xyzTok, xyzFile, xyzSeen, crun, cdpLastSyncTime, del, auth, req, lookup, parse, tmpFiles, xyzLastSyncTime, ytLastSyncTime,
                 authErrs, syncsLeft, last, orch>>
  /\ UNCHANGED <<cookieVars, cfgVars>>

\* One iteration whose answer is an auth error (isAuthError(data)).
BiliFetchAuthError(c) ==
  /\ brun[c].pc = "fetch"
  /\ authErrs < MaxAuthErrs
  /\ authErrs' = authErrs + 1
  /\ brun' = [brun EXCEPT ![c] =
       biliOnAuthError([@ EXCEPT !.log = Append(@, "auth"),
                                 !.fetchedPast = @ \/ brun[c].streakHit])]
  /\ UNCHANGED <<store, xrun, yrun, xyzTok, xyzFile, xyzSeen, crun, cdpLastSyncTime, del, auth, req, lookup, parse, tmpFiles, xyzLastSyncTime, ytLastSyncTime,
                 netErrs, syncsLeft, last, orch>>
  /\ UNCHANGED <<cookieVars, cfgVars>>

\* `await this.getCookie(true); return this.sync(true)`
BiliRefreshAndRetry(c) ==
  /\ brun[c].pc = "refresh"
  /\ \E cloud \in SyncCloudResponses(now) :
       LET r == biliGetCookie(cache, TRUE, now, cloud)
       IN /\ cache' = r.cache
          /\ brun' = [brun EXCEPT ![c] =
               IF r.threw
               THEN [@ EXCEPT !.pc = "failed", !.stop = "cookie", !.log = Append(@, "refresh")]
               ELSE IF ~biliValidateConfig
               THEN [@ EXCEPT !.pc = "failed", !.stop = "config", !.log = Append(@, "refresh")]
               ELSE [IdleBiliRun EXCEPT !.pc = "cookie", !.isRetry = TRUE,
                                        !.log = Append(brun[c].log, "refresh"),
                                        !.prevOk = brun[c].prevOk,
                                        !.changed = brun[c].changed,
                                        !.before = brun[c].before]]
  /\ UNCHANGED <<store, xrun, yrun, xyzTok, xyzFile, xyzSeen, crun, cdpLastSyncTime, del, auth, req, lookup, parse, tmpFiles, xyzLastSyncTime, ytLastSyncTime,
                 authErrs, netErrs, syncsLeft, last, orch>>
  /\ UNCHANGED <<cloudEnabled, staticCookie, ccDomain, now, ticks, calls, lastGet>>
  /\ UNCHANGED cfgVars

\* One iteration of `while (hasMore)` whose request is answered with code 0.
BiliFetchPage(c) ==
  /\ brun[c].pc = "fetch"
  /\ biliRepeats => brun[c].page <= MaxBiliRequests
  /\ LET run == brun[c]
         list == biliPage(run.page)
         collected == biliCollectItems(list, run.processedIds, <<>>)
         items == collected.items
         tx == biliTransaction(store, run.newCount, run.updateCount, items)
         hasNewOrUpdated == tx.newCount > run.newCount \/ tx.updateCount > run.updateCount
         noUpdateCount == IF hasNewOrUpdated THEN 0 ELSE run.noUpdateCount + Len(items)
         statuses == RecordStatuses(list, run.processedIds, store, <<>>)
         track == TrackStreak(statuses, run.streak, run.streakHit)
         anyChanged == \E i \in 1..Len(statuses) : Changed(statuses[i])
         fresh == Cardinality({i \in 1..Len(statuses) : statuses[i] # "repeat"})
         pageStreak == IF anyChanged THEN 0 ELSE run.pageStreak + fresh
         seenRun == [run EXCEPT !.log = Append(@, "ok"),
                                !.fetchedPast = @ \/ run.streakHit,
                                !.streak = track.streak, !.streakHit = track.hit,
                                !.pageStreak = pageStreak,
                                !.pageHit = @ \/ (Len(list) > 0 /\ pageStreak >= DupThreshold)]
     IN IF Len(list) = 0
        THEN /\ brun' = [brun EXCEPT ![c] = [seenRun EXCEPT !.pc = "done", !.stop = "empty"]]
             /\ store' = store
        ELSE IF tx.threw
        THEN /\ brun' = [brun EXCEPT ![c] =
                  [seenRun EXCEPT !.pc = "failed", !.stop = "constraint"]]
             /\ store' = tx.store
        ELSE /\ store' = tx.store
             /\ brun' = [brun EXCEPT ![c] =
                  [seenRun EXCEPT !.processedIds = collected.processedIds,
                                  !.newCount = tx.newCount, !.updateCount = tx.updateCount,
                                  !.noUpdateCount = noUpdateCount,
                                  !.page = @ + 1,
                                  !.changed = @ \/ tx.store # store,
                                  !.pc = IF ~hasNewOrUpdated /\ noUpdateCount >= DupThreshold
                                         THEN "done" ELSE "fetch",
                                  !.stop = IF ~hasNewOrUpdated /\ noUpdateCount >= DupThreshold
                                           THEN "threshold" ELSE "none"]]
  /\ UNCHANGED <<xrun, yrun, xyzTok, xyzFile, xyzSeen, crun, cdpLastSyncTime, del, auth, req, lookup, parse, tmpFiles, xyzLastSyncTime, ytLastSyncTime,
                 authErrs, netErrs, syncsLeft, last, orch>>
  /\ UNCHANGED <<cookieVars, cfgVars>>

\* DELETE /api/history/:id on an existing record: the local rows with that id go.
DeleteHistory(id) ==
  /\ \E r \in store : r.id = id
  /\ store' = dbDeleteById(store, id)
  /\ UNCHANGED <<brun, xrun, yrun, xyzTok, xyzFile, xyzSeen, crun, cdpLastSyncTime, del, auth, req, lookup, parse, tmpFiles, xyzLastSyncTime, ytLastSyncTime,
                 authErrs, netErrs, syncsLeft, last, orch>>
  /\ UNCHANGED <<cookieVars, cfgVars>>

\* Time passes between two syncs.
Elapse ==
  /\ \A c \in SyncCallers : ~Busy(c)
  /\ ticks < MaxTicks
  /\ ticks' = ticks + 1
  /\ now' = now + 1
  /\ UNCHANGED <<cloudEnabled, staticCookie, ccDomain, cache, calls, lastGet>>
  /\ UNCHANGED <<cfgVars, syncVars>>

(***************************************************************************)
(* Xiaoyuzhou (podcast) provider                                           *)
(***************************************************************************)

\* Token values: 0 is "absent"; 1 comes from config.json, 2 from the token state
\* file of an earlier process, 3 and 4 are issued by the refresh endpoint.
NoToken == 0

IdleXyzRun ==
  [pc |-> "idle", isFirstSync |-> FALSE, pageCount |-> 0, loadMoreKey |-> 0,
   newCount |-> 0, updateCount |-> 0, shouldStop |-> FALSE, isRetry |-> FALSE, stop |-> "none",
   currentTime |-> 0, savedDeviceId |-> 0,
   pagesFetched |-> 0, refreshes |-> 0, initRefresh |-> FALSE, log |-> <<>>,
   before |-> {}, inserted |-> {}, prevOk |-> FALSE, changed |-> FALSE]

\* XiaoyuzhouProvider.validateConfig
xyzValidateConfig ==
  enabled["xiaoyuzhou"] /\ (xyzCfg.refreshToken # NoToken \/ xyzCfg.accessToken # NoToken)

\* a || b on token values
OrElse(a, b) == IF a # NoToken THEN a ELSE b

\* XiaoyuzhouProvider._saveTokenState
saveTokenState(tok) ==
  [present |-> TRUE, accessToken |-> tok.accessToken, refreshToken |-> tok.refreshToken,
   deviceId |-> tok.deviceId]

\* What the refresh endpoint can answer: a failure (transport, status), a body
\* without access token, or a new access token with or without a rotated refresh
\* token.
RefreshResponses ==
  {[ok |-> FALSE, accessToken |-> NoToken, refreshToken |-> NoToken],
   [ok |-> TRUE, accessToken |-> NoToken, refreshToken |-> NoToken],
   [ok |-> TRUE, accessToken |-> 3, refreshToken |-> NoToken],
   [ok |-> TRUE, accessToken |-> 3, refreshToken |-> 4]}

\* _refreshTokens that keeps the new tokens in memory only.
refreshTokens_NoSave(tok, file, resp) ==
  IF tok.refreshToken = NoToken \/ ~resp.ok \/ resp.accessToken = NoToken
  THEN [tok |-> tok, file |-> file, refreshed |-> FALSE]
  ELSE [tok |-> [tok EXCEPT !.accessToken = resp.accessToken,
                            !.refreshToken = OrElse(resp.refreshToken, @)],
        file |-> file, refreshed |-> TRUE]

\* XiaoyuzhouProvider._refreshTokens: the new in-memory tokens, the new token
\* state file and the returned boolean.
refreshTokens(tok, file, resp) ==
  IF tok.refreshToken = NoToken \/ ~resp.ok \/ resp.accessToken = NoToken
  THEN [tok |-> tok, file |-> file, refreshed |-> FALSE]
  ELSE LET t2 == [tok EXCEPT !.accessToken = resp.accessToken,
                             !.refreshToken = OrElse(resp.refreshToken, @)]
       IN [tok |-> t2, file |-> saveTokenState(t2), refreshed |-> TRUE]

\* The load that prefers the tokens of config.json to those of the state file.
loadTokens_ConfigFirst(file, gen) ==
  [initialized |-> FALSE,
   deviceId |-> OrElse(xyzCfg.deviceId, OrElse(file.deviceId, gen)),
   refreshToken |-> OrElse(xyzCfg.refreshToken, file.refreshToken),
   accessToken |-> OrElse(xyzCfg.accessToken, file.accessToken)]

\* _initTokens up to its await: the in-memory tokens taken from the token state
\* file and config.json; gen is the value _generateDeviceId draws.
loadTokens(file, gen) ==
  [initialized |-> FALSE,
   deviceId |-> OrElse(xyzCfg.deviceId, OrElse(file.deviceId, gen)),
   refreshToken |-> OrElse(file.refreshToken, xyzCfg.refreshToken),
   accessToken |-> OrElse(file.accessToken, xyzCfg.accessToken)]

\* `if (!this._accessToken && this._refreshToken)`: _initTokens awaits a refresh
needsInitRefresh(tok) == tok.accessToken = NoToken /\ tok.refreshToken # NoToken

\* _initTokens after its await: a generated device id is saved, the tokens are
\* marked initialised.  savedDeviceId is savedState.deviceId as read at the start.
finishInit(tok, file, savedDeviceId) ==
  [tok |-> [tok EXCEPT !.initialized = TRUE],
   file |-> IF savedDeviceId = NoToken /\ xyzCfg.deviceId = NoToken
            THEN saveTokenState(tok) ELSE file]

\* XiaoyuzhouProvider._initTokens run without another call in between.
initTokens(tok, file, resp, gen) ==
  IF tok.initialized THEN [tok |-> tok, file |-> file, refreshCalled |-> FALSE]
  ELSE LET t1 == loadTokens(file, gen)
           r == IF needsInitRefresh(t1)
                THEN refreshTokens(t1, file, resp)
                ELSE [tok |-> t1, file |-> file, refreshed |-> FALSE]
           fin == finishInit(r.tok, r.file, file.deviceId)
       IN [tok |-> fin.tok, file |-> fin.file, refreshCalled |-> needsInitRefresh(t1)]

\* ---- what has been observed of tokens and device ids ----

NoLoad == [called |-> FALSE, file |-> [present |-> FALSE, accessToken |-> NoToken,
                                       refreshToken |-> NoToken, deviceId |-> NoToken],
           tok |-> [initialized |-> FALSE, accessToken |-> NoToken, refreshToken |-> NoToken,
                    deviceId |-> NoToken]]

NoRefreshSeen == [called |-> FALSE, resp |-> [ok |-> FALSE, accessToken |-> NoToken,
                                              refreshToken |-> NoToken],
                  tokBefore |-> NoLoad.tok, fileBefore |-> NoLoad.file,
                  tokAfter |-> NoLoad.tok, fileAfter |-> NoLoad.file, returned |-> FALSE]

NothingSeen == [generated |-> 0, used |-> {}, loaded |-> NoLoad, lastRefresh |-> NoRefreshSeen,
                restarts |-> 0]

\* _initTokens has loaded the tokens (and generated a device id when neither
\* config.json nor the token state file has one).
SeenLoad(seen, file, tok) ==
  [seen EXCEPT !.loaded = [called |-> TRUE, file |-> file, tok |-> tok],
               !.generated = IF xyzCfg.deviceId = NoToken /\ file.deviceId = NoToken
                             THEN @ + 1 ELSE @]

\* A request has been sent with header x-jike-device-id = deviceId.
SeenRequest(seen, deviceId) == [seen EXCEPT !.used = @ \cup {deviceId}]

\* _refreshTokens has returned.
SeenRefresh(seen, tok, file, resp, r) ==
  [seen EXCEPT !.lastRefresh = [called |-> TRUE, resp |-> resp, tokBefore |-> tok,
                                fileBefore |-> file, tokAfter |-> r.tok, fileAfter |-> r.file,
                                returned |-> r.refreshed]]

\* XiaoyuzhouProvider.normalizeItem (a raw record is [eid])
xyzNormalizeItem(rawItem, viewTime) ==
  [id |-> rawItem.eid, platform |-> "xiaoyuzhou", viewTime |-> viewTime]

\* The existing-record test that never stops the walk.
xyzStopsAt_Never(existing, isFirstSync) == FALSE

\* `if (existing) { if (!isFirstSync) { shouldStop = true; break; } ... }`
xyzStopsAt(existing, isFirstSync) == existing /\ ~isFirstSync

\* The cap test that lets one page too many through.
xyzCapReached_OffByOne(isFirstSync, pageCount) == isFirstSync /\ pageCount > xyzMaxPages + 1

\* `if (isFirstSync && pageCount > this.maxPages) break` at the loop head
xyzCapReached(isFirstSync, pageCount) == isFirstSync /\ pageCount > xyzMaxPages

\* The loop `for (const rawItem of data)` of sync(): the records to insert and
\* whether the walk hit a stored id in an incremental sync.
RECURSIVE xyzScanPage(_, _, _, _, _)
xyzScanPage(data, st, isFirstSync, currentTime, newItems) ==
  IF data = <<>> THEN [newItems |-> newItems, shouldStop |-> FALSE]
  ELSE LET rawItem == Head(data)
       IN IF rawItem.eid = 0
          THEN xyzScanPage(Tail(data), st, isFirstSync, currentTime, newItems)
          ELSE IF xyzStopsAt(hasRow(st, rawItem.eid, "xiaoyuzhou"), isFirstSync)
          THEN [newItems |-> newItems, shouldStop |-> TRUE]
          ELSE IF hasRow(st, rawItem.eid, "xiaoyuzhou")
          THEN xyzScanPage(Tail(data), st, isFirstSync, currentTime, newItems)
          ELSE xyzScanPage(Tail(data), st, isFirstSync, currentTime,
                           Append(newItems, xyzNormalizeItem(rawItem, currentTime)))

\* batchInsert of xiaoyuzhou.js / youtube.js: INSERT OR IGNORE for every item.
RECURSIVE batchInsertOrIgnore(_, _)
batchInsertOrIgnore(st, items) ==
  IF items = <<>> THEN st
  ELSE batchInsertOrIgnore(
         dbInsertOrIgnore(st, Row(Head(items).id, Head(items).platform, Head(items).viewTime)),
         Tail(items))

\* The batch write that stores only the first new record of a page.
xyzStorePage_FirstOnly(st, newItems) ==
  IF Len(newItems) > 0 THEN batchInsertOrIgnore(st, <<Head(newItems)>>) ELSE st

\* `if (newItems.length > 0) { batchInsert(newItems); ... }`
xyzStorePage(st, newItems) ==
  IF Len(newItems) > 0 THEN batchInsertOrIgnore(st, newItems) ELSE st

\* The answer to the request for page k: its records and whether it carries a
\* loadMoreKey.  Past the last page the server answers with no data.
xyzPage(k) == IF k <= Len(xyzRemote) THEN xyzRemote[k] ELSE <<>>
xyzNextKey(k) == k < Len(xyzRemote) \/ (k = Len(xyzRemote) /\ xyzTrailingKey)

\* sync() up to the first request: validateConfig, _initTokens, the access-token
\* check, _readSyncState and the locals; then the loop head of the first iteration.
xyzStartRun(prevOk, init) ==
  IF ~xyzValidateConfig
  THEN [IdleXyzRun EXCEPT !.pc = "failed", !.stop = "config", !.prevOk = prevOk]
  ELSE IF init.tok.accessToken = NoToken
  THEN [IdleXyzRun EXCEPT !.pc = "failed", !.stop = "token", !.prevOk = prevOk,
                          !.initRefresh = init.refreshCalled,
                          !.refreshes = IF init.refreshCalled THEN 1 ELSE 0]
  ELSE [IdleXyzRun EXCEPT !.pc = "fetch", !.pageCount = 1, !.prevOk = prevOk,
                          !.isFirstSync = (xyzLastSyncTime = 0),
                          !.currentTime = now, !.before = store,
                          !.initRefresh = init.refreshCalled,
                          !.refreshes = IF init.refreshCalled THEN 1 ELSE 0]

\* The 401/403 branch that repeats the request without refreshing the tokens.
xyzOnAuthError_NoRefresh(run) ==
  IF run.isRetry THEN [run EXCEPT !.pc = "failed", !.stop = "auth"]
  ELSE [run EXCEPT !.pc = "fetch", !.isRetry = TRUE]

\* `if ((response.status === 401 || response.status === 403) && !isRetry)`
xyzOnAuthError(run) ==
  IF run.isRetry THEN [run EXCEPT !.pc = "failed", !.stop = "auth"]
  ELSE [run EXCEPT !.pc = "refresh"]

\* A caller calls provider.sync(): validateConfig and _initTokens up to its
\* await; when _initTokens does not await, also the rest of sync() up to the
\* first request.
XyzStart(c) ==
  /\ CanCall(c)
  /\ Called(c, "xiaoyuzhou")
  /\ \E gen \in {8, 9} :
       LET prevOk == last[c] = "xiaoyuzhou" /\ xrun[c].pc = "done"
           t1 == loadTokens(xyzFile, gen)
       IN IF ~xyzValidateConfig \/ xyzTok.initialized
          THEN /\ xrun' = [xrun EXCEPT ![c] =
                    xyzStartRun(prevOk, [tok |-> xyzTok, refreshCalled |-> FALSE])]
               /\ UNCHANGED <<xyzTok, xyzFile, xyzSeen, crun, cdpLastSyncTime, del, auth, req, lookup, parse, tmpFiles>>
          ELSE IF ~needsInitRefresh(t1)
          THEN LET fin == finishInit(t1, xyzFile, xyzFile.deviceId)
               IN /\ xrun' = [xrun EXCEPT ![c] =
                       xyzStartRun(prevOk, [tok |-> fin.tok, refreshCalled |-> FALSE])]
                  /\ xyzTok' = fin.tok
                  /\ xyzFile' = fin.file
                  /\ xyzSeen' = SeenLoad(xyzSeen, xyzFile, t1)
          ELSE /\ xrun' = [xrun EXCEPT ![c] =
                    [IdleXyzRun EXCEPT !.pc = "init", !.prevOk = prevOk,
                                       !.savedDeviceId = xyzFile.deviceId]]
               /\ xyzTok' = t1
               /\ xyzSeen' = SeenRequest(SeenLoad(xyzSeen, xyzFile, t1), t1.deviceId)
               /\ UNCHANGED xyzFile
  /\ UNCHANGED <<store, brun, yrun, crun, cdpLastSyncTime, del, auth, req, lookup, parse, tmpFiles, xyzLastSyncTime, ytLastSyncTime,
                 authErrs, netErrs, orch>>
  /\ UNCHANGED <<cookieVars, cfgVars>>

\* `await this._refreshTokens()` of _initTokens has settled: the rest of
\* _initTokens and of sync() up to the first request.
XyzInitRefresh(c) ==
  /\ xrun[c].pc = "init"
  /\ \E resp \in RefreshResponses :
       LET r == refreshTokens(xyzTok, xyzFile, resp)
           fin == finishInit(r.tok, r.file, xrun[c].savedDeviceId)
       IN /\ xyzTok' = fin.tok
          /\ xyzFile' = fin.file
          /\ xyzSeen' = SeenRefresh(xyzSeen, xyzTok, xyzFile, resp, r)
          /\ xrun' = [xrun EXCEPT ![c] =
               [xyzStartRun(xrun[c].prevOk, [tok |-> fin.tok, refreshCalled |-> TRUE])
                  EXCEPT !.savedDeviceId = xrun[c].savedDeviceId]]
  /\ UNCHANGED <<store, brun, yrun, crun, cdpLastSyncTime, del, auth, req, lookup, parse, tmpFiles, xyzLastSyncTime, ytLastSyncTime,
                 authErrs, netErrs, syncsLeft, last, orch>>
  /\ UNCHANGED <<cookieVars, cfgVars>>

\* A catch block that takes back the rows the sync has inserted so far.
xyzOnFetchError_Rollback(run, st) ==
  [run |-> [run EXCEPT !.pc = "failed", !.stop = "error", !.log = Append(@, "error"),
                       !.pagesFetched = IF run.isRetry THEN @ ELSE @ + 1],
   store |-> st \ run.inserted]

\* The catch block of the loop: the error is logged and thrown on; the table is
\* not touched.
xyzOnFetchError(run, st) ==
  [run |-> [run EXCEPT !.pc = "failed", !.stop = "error", !.log = Append(@, "error"),
                       !.pagesFetched = IF run.isRetry THEN @ ELSE @ + 1],
   store |-> st]

\* _fetchHistory whose request fails: transport error, a status other than
\* 401/403, or a body without data.
XyzFetchFails(c) ==
  /\ xrun[c].pc = "fetch"
  /\ netErrs < MaxNetErrs
  /\ netErrs' = netErrs + 1
  /\ LET r == xyzOnFetchError(xrun[c], store)
     IN /\ xrun' = [xrun EXCEPT ![c] = r.run]
        /\ store' = r.store
  /\ xyzSeen' = SeenRequest(xyzSeen, xyzTok.deviceId)
  /\ UNCHANGED <<brun, yrun, crun, cdpLastSyncTime, del, auth, req, lookup, parse, tmpFiles, xyzTok, xyzFile, xyzLastSyncTime, ytLastSyncTime,
                 authErrs, syncsLeft, last, orch>>
  /\ UNCHANGED <<cookieVars, cfgVars>>

\* _fetchHistory whose request is answered 401/403.
XyzFetchAuthError(c) ==
  /\ xrun[c].pc = "fetch"
  /\ authErrs < MaxAuthErrs
  /\ authErrs' = authErrs + 1
  /\ xrun' = [xrun EXCEPT ![c] =
       xyzOnAuthError([@ EXCEPT !.log = Append(@, "auth"),
                                !.pagesFetched = IF xrun[c].isRetry THEN @ ELSE @ + 1])]
  /\ xyzSeen' = SeenRequest(xyzSeen, xyzTok.deviceId)
  /\ UNCHANGED <<store, brun, yrun, crun, cdpLastSyncTime, del, auth, req, lookup, parse, tmpFiles, xyzTok, xyzFile, xyzLastSyncTime, ytLastSyncTime,
                 netErrs, syncsLeft, last, orch>>
  /\ UNCHANGED <<cookieVars, cfgVars>>

\* `const refreshed = await this._refreshTokens()` after a 401/403, then the
\* retried request or the error.
XyzRefresh(c) ==
  /\ xrun[c].pc = "refresh"
  /\ \E resp \in RefreshResponses :
       LET r == refreshTokens(xyzTok, xyzFile, resp)
           sent == IF xyzTok.refreshToken # NoToken
                   THEN SeenRequest(xyzSeen, xyzTok.deviceId) ELSE xyzSeen
       IN /\ xyzTok' = r.tok
          /\ xyzFile' = r.file
          /\ xyzSeen' = SeenRefresh(sent, xyzTok, xyzFile, resp, r)
          /\ xrun' = [xrun EXCEPT ![c] =
               IF r.refreshed
               THEN [@ EXCEPT !.pc = "fetch", !.isRetry = TRUE, !.refreshes = @ + 1,
                              !.log = Append(@, "refresh")]
               ELSE [@ EXCEPT !.pc = "failed", !.stop = "refresh", !.refreshes = @ + 1,
                              !.log = Append(@, "refreshFailed")]]
  /\ UNCHANGED <<store, brun, yrun, crun, cdpLastSyncTime, del, auth, req, lookup, parse, tmpFiles, xyzLastSyncTime, ytLastSyncTime,
                 authErrs, netErrs, syncsLeft, last, orch>>
  /\ UNCHANGED <<cookieVars, cfgVars>>

\* _fetchHistory answered with data: the rest of the loop iteration, the loop
\* head of the next one, and _saveSyncState when the loop ends.
XyzFetchPage(c) ==
  /\ xrun[c].pc = "fetch"
  /\ LET run == xrun[c]
         k == run.loadMoreKey + 1
         data == xyzPage(k)
         scan == xyzScanPage(data, store, run.isFirstSync, run.currentTime, <<>>)
         stored == xyzStorePage(store, scan.newItems)
         seen == [run EXCEPT !.log = Append(@, "ok"), !.isRetry = FALSE,
                             !.pagesFetched = IF run.isRetry THEN @ ELSE @ + 1]
         finished(r, why) == [r EXCEPT !.pc = "done", !.stop = why]
     IN IF Len(data) = 0
        THEN /\ xrun' = [xrun EXCEPT ![c] = finished(seen, "empty")]
             /\ store' = store
             /\ xyzLastSyncTime' = now
        ELSE LET counted == [seen EXCEPT !.newCount = @ + Len(scan.newItems),
                                         !.shouldStop = scan.shouldStop,
                                         !.inserted = @ \cup (stored \ store),
                                         !.changed = @ \/ stored # store]
             IN /\ store' = stored
                /\ IF ~xyzNextKey(k)
                   THEN /\ xrun' = [xrun EXCEPT ![c] = finished(counted, "end")]
                        /\ xyzLastSyncTime' = now
                   ELSE IF scan.shouldStop
                   THEN /\ xrun' = [xrun EXCEPT ![c] =
                             finished([counted EXCEPT !.loadMoreKey = k], "existing")]
                        /\ xyzLastSyncTime' = now
                   ELSE IF xyzCapReached(run.isFirstSync, run.pageCount + 1)
                   THEN /\ xrun' = [xrun EXCEPT ![c] =
                             finished([counted EXCEPT !.loadMoreKey = k,
                                                      !.pageCount = @ + 1], "cap")]
                        /\ xyzLastSyncTime' = now
                   ELSE /\ xrun' = [xrun EXCEPT ![c] =
                             [counted EXCEPT !.loadMoreKey = k, !.pageCount = @ + 1]]
                        /\ UNCHANGED xyzLastSyncTime
  /\ xyzSeen' = SeenRequest(xyzSeen, xyzTok.deviceId)
  /\ UNCHANGED <<brun, yrun, crun, cdpLastSyncTime, del, auth, req, lookup, parse, tmpFiles, xyzTok, xyzFile, ytLastSyncTime,
                 authErrs, netErrs, syncsLeft, last, orch>>
  /\ UNCHANGED <<cookieVars, cfgVars>>

\* The process is restarted: a new XiaoyuzhouProvider is constructed, the files
\* under data/ stay.
Restart ==
  /\ \A c \in SyncCallers : ~Busy(c)
  /\ xyzTok.initialized
  /\ xyzSeen.restarts < MaxRestarts
  /\ xyzTok' = [initialized |-> FALSE, accessToken |-> NoToken, refreshToken |-> NoToken,
                deviceId |-> NoToken]
  /\ xrun' = [c \in SyncCallers |-> IdleXyzRun]
  /\ xyzSeen' = [xyzSeen EXCEPT !.restarts = @ + 1, !.loaded = NoLoad,
                                !.lastRefresh = NoRefreshSeen]
  /\ syncsLeft' = [c \in SyncCallers |-> 1]
  /\ last' = [c \in SyncCallers |-> "none"]
  /\ UNCHANGED <<store, brun, yrun, crun, cdpLastSyncTime, del, auth, req, lookup, parse, tmpFiles, xyzFile, xyzLastSyncTime, ytLastSyncTime,
                 authErrs, netErrs, orch>>
  /\ UNCHANGED <<cookieVars, cfgVars>>

(***************************************************************************)
(* YouTube provider (yt-dlp)                                               *)
(***************************************************************************)

\* `let cookieFile = null`
NoPath == <<>>

\* `./data/tmp_${platform}_cookie.txt` of getCookieNetscapeFile
cookieOutputPath(platform) == <<"./data/tmp_", platform, "_cookie.txt">>

\* writeCookieNetscapeFile(cookie, outputPath, domain) of utils/cookieNetscape.js:
\* the file is written at outputPath and the path returned.
writeCookieNetscapeFile(files, outputPath) ==
  [files |-> files \cup {outputPath}, path |-> outputPath]

\* removeCookieFile(filePath) of utils/cookieNetscape.js: the file is deleted
\* if it is there.
removeCookieFile(files, filePath) == files \ {filePath}

\* `finally { if (cookieFile) { cookieService.removeCookieFile(cookieFile); } }`
ytFinally(files, cookieFile) ==
  IF cookieFile # NoPath THEN removeCookieFile(files, cookieFile) ELSE files

IdleYtRun ==
  [pc |-> "idle", stop |-> "none", newCount |-> 0, updateCount |-> 0,
   isFirstSync |-> FALSE, prevOk |-> FALSE, changed |-> FALSE,
   lastSyncTime |-> 0, limit |-> 0, entries |-> <<>>, before |-> {}, after |-> {},
   cookieFile |-> NoPath, fileAtScraper |-> FALSE]

\* YouTubeProvider.validateConfig
ytValidateConfig == enabled["youtube"] /\ isCookieCloudEnabled

\* A normalizeItem that files the record under another provider's platform.
ytNormalizeItem_OtherPlatform(entry, viewTime) ==
  [id |-> entry.id, platform |-> "bilibili", viewTime |-> viewTime]

\* YouTubeProvider.normalizeItem (an entry is [id])
ytNormalizeItem(entry, viewTime) ==
  [id |-> entry.id, platform |-> "youtube", viewTime |-> viewTime]

\* YouTubeProvider._fetchHistory: `--playlist-end limit` when limit is set
\* (0 stands for null).
ytFetchHistory(limit) ==
  IF limit # 0 /\ limit < Len(ytRemote) THEN SubSeq(ytRemote, 1, limit) ELSE ytRemote

\* The stop test that lets a record stored at the time of the last sync pass.
ytStopsAt_Strict(existing, isFirstSync, lastSyncTime) ==
  ~isFirstSync /\ existing.viewTime > lastSyncTime

\* `if (!isFirstSync && existing.view_time >= lastSyncTime) break`
ytStopsAt(existing, isFirstSync, lastSyncTime) ==
  ~isFirstSync /\ existing.viewTime >= lastSyncTime

\* The loop `for (const entry of entries)` of sync(): the records to insert.
RECURSIVE ytScan(_, _, _, _, _, _)
ytScan(entries, st, isFirstSync, lastSyncTime, currentTime, newItems) ==
  IF entries = <<>> THEN newItems
  ELSE LET entry == Head(entries)
       IN IF entry.id = 0
          THEN ytScan(Tail(entries), st, isFirstSync, lastSyncTime, currentTime, newItems)
          ELSE IF hasRow(st, entry.id, "youtube")
          THEN IF ytStopsAt(getById(st, entry.id, "youtube"), isFirstSync, lastSyncTime)
               THEN newItems
               ELSE ytScan(Tail(entries), st, isFirstSync, lastSyncTime, currentTime, newItems)
          ELSE ytScan(Tail(entries), st, isFirstSync, lastSyncTime, currentTime,
                      Append(newItems, ytNormalizeItem(entry, currentTime)))

\* A result that reports the inserted records as updates as well.
ytSyncResult_AlsoUpdates(newItems) ==
  [newCount |-> Len(newItems), updateCount |-> Len(newItems)]

\* `newCount = newItems.length` and `return { newCount, updateCount: 0 }`
ytSyncResult(newItems) ==
  [newCount |-> Len(newItems), updateCount |-> 0]

\* sync() up to `await cookieService.getCookieNetscapeFile('youtube')`
ytStartRun(prevOk) ==
  IF ytValidateConfig THEN [IdleYtRun EXCEPT !.pc = "cookie", !.prevOk = prevOk]
  ELSE [IdleYtRun EXCEPT !.pc = "failed", !.stop = "config", !.prevOk = prevOk]

\* A caller calls provider.sync().
YtStart(c) ==
  /\ CanCall(c)
  /\ Called(c, "youtube")
  /\ yrun' = [yrun EXCEPT ![c] = ytStartRun(last[c] = "youtube" /\ yrun[c].pc = "done")]
  /\ UNCHANGED <<store, brun, xrun, xyzTok, xyzFile, xyzSeen, crun, cdpLastSyncTime, del, auth, req, lookup, parse, tmpFiles, xyzLastSyncTime, ytLastSyncTime,
                 authErrs, netErrs, orch>>
  /\ UNCHANGED <<cookieVars, cfgVars>>

\* CookieService.getCookieNetscapeFile: getCookie, then _getDomain.
YtGetCookie(c) ==
  /\ yrun[c].pc = "cookie"
  /\ \E cloud \in SyncCloudResponses(now) :
       LET r == getCookie(cache, "youtube", now, cloud)
           w == writeCookieNetscapeFile(tmpFiles, cookieOutputPath("youtube"))
       IN /\ cache' = r.cache
          /\ IF r.threw \/ "youtube" \notin ccDomain
             THEN /\ yrun' = [yrun EXCEPT ![c] = [@ EXCEPT !.pc = "failed", !.stop = "cookie"]]
                  /\ tmpFiles' = ytFinally(tmpFiles, NoPath)
             ELSE /\ yrun' = [yrun EXCEPT ![c] = [@ EXCEPT !.pc = "fetch", !.cookieFile = w.path]]
                  /\ tmpFiles' = w.files
  /\ UNCHANGED <<store, brun, xrun, xyzTok, xyzFile, xyzSeen, crun, cdpLastSyncTime, del, auth, req, lookup, parse, xyzLastSyncTime, ytLastSyncTime,
                 authErrs, netErrs, syncsLeft, last, orch>>
  /\ UNCHANGED <<cloudEnabled, staticCookie, ccDomain, now, ticks, calls, lastGet>>
  /\ UNCHANGED cfgVars

\* _fetchHistory throws: yt-dlp exits with an error or prints no JSON.
YtFetchFails(c) ==
  /\ yrun[c].pc = "fetch"
  /\ netErrs < MaxNetErrs
  /\ netErrs' = netErrs + 1
  /\ yrun' = [yrun EXCEPT ![c] = [@ EXCEPT !.pc = "failed", !.stop = "error",
                                            !.fileAtScraper = yrun[c].cookieFile \in tmpFiles]]
  /\ tmpFiles' = ytFinally(tmpFiles, yrun[c].cookieFile)
  /\ UNCHANGED <<store, brun, xrun, xyzTok, xyzFile, xyzSeen, crun, cdpLastSyncTime, del, auth, req, lookup, parse, xyzLastSyncTime, ytLastSyncTime,
                 authErrs, syncsLeft, last, orch>>
  /\ UNCHANGED <<cookieVars, cfgVars>>

\* The rest of sync() after the cookie file is there: _readSyncState,
\* _fetchHistory, the scan, batchInsert and _saveSyncState.
YtSync(c) ==
  /\ yrun[c].pc = "fetch"
  /\ LET lastSyncTime == ytLastSyncTime
         isFirstSync == lastSyncTime = 0
         limit == IF isFirstSync THEN ytFirstSyncCount ELSE 0
         entries == ytFetchHistory(limit)
         currentTime == now
         newItems == ytScan(entries, store, isFirstSync, lastSyncTime, currentTime, <<>>)
         stored == batchInsertOrIgnore(store, newItems)
     IN IF Len(entries) = 0
        THEN /\ yrun' = [yrun EXCEPT ![c] =
                  [@ EXCEPT !.pc = "done", !.stop = "empty", !.isFirstSync = isFirstSync,
                            !.fileAtScraper = yrun[c].cookieFile \in tmpFiles,
                            !.lastSyncTime = lastSyncTime, !.limit = limit,
                            !.before = store, !.after = store]]
             /\ UNCHANGED <<store, ytLastSyncTime>>
        ELSE /\ store' = stored
             /\ ytLastSyncTime' = currentTime
             /\ yrun' = [yrun EXCEPT ![c] =
                  [@ EXCEPT !.pc = "done", !.stop = "end", !.isFirstSync = isFirstSync,
                            !.fileAtScraper = yrun[c].cookieFile \in tmpFiles,
                            !.newCount = ytSyncResult(newItems).newCount,
                            !.updateCount = ytSyncResult(newItems).updateCount,
                            !.changed = stored # store,
                            !.lastSyncTime = lastSyncTime, !.limit = limit,
                            !.entries = entries, !.before = store, !.after = stored]]
  /\ tmpFiles' = ytFinally(tmpFiles, yrun[c].cookieFile)
  /\ UNCHANGED <<brun, xrun, xyzTok, xyzFile, xyzSeen, crun, cdpLastSyncTime, del, auth, req, lookup, parse, xyzLastSyncTime,
                 authErrs, netErrs, syncsLeft, last, orch>>
  /\ UNCHANGED <<cookieVars, cfgVars>>


(***************************************************************************)
(* YouTube provider (browser automation over CDP)                          *)
(***************************************************************************)

IdleCdpRun ==
  [pc |-> "idle", stop |-> "none", newCount |-> 0, updateCount |-> 0,
   isFirstSync |-> FALSE, lastSyncTime |-> 0, saved |-> FALSE,
   items |-> <<>>, before |-> {}, after |-> {}]

\* YouTubeCDPProvider.validateConfig (cdpHost and cdpPort have defaults)
cdpValidateConfig == enabled["youtube-cdp"]

\* The start of the day of a date header; 0 stands for a header that
\* _parseDateString cannot read.
CdpDays == {0, StartTime - 20, StartTime - 10}

\* Items _extractVideosWithTime can return: [id, day]
CdpItems == [id : 1..MaxCdpItems, day : CdpDays]

\* The videos of a page are 1, 2, ... from the top.
Numbered(page) == \A i \in 1..Len(page) : page[i].id = i

\* What the history page shows at the time of a sync, newest first.
CdpPages == {page \in UNION {[1..n -> CdpItems] : n \in 0..MaxCdpItems} : Numbered(page)}

\* YouTubeCDPProvider._parseDateString at time t: the start of the day the
\* header names, or the current time when the header is not understood.
cdpParseDateString(day, t) == IF day = 0 THEN t ELSE day

\* Newest first: the time of the day header does not grow down the page; a
\* header that is not understood reads as the current time.
NewestFirst(page) ==
  \A i \in 1..Len(page), j \in 1..Len(page) :
    i < j => cdpParseDateString(page[i].day, StartTime) >= cdpParseDateString(page[j].day, StartTime)

\* Any list _extractVideosWithTime can return for a longer history, a video
\* shown more than once included.
CdpLists ==
  {page \in UNION {[1..n -> [id : 1..MaxWalkIds, day : CdpDays]] : n \in 0..MaxWalkIds} :
     NewestFirst(page)}

\* YouTubeCDPProvider.normalizeItem
cdpNormalizeItem(item, t) ==
  [id |-> item.id, platform |-> "youtube", viewTime |-> cdpParseDateString(item.day, t)]

\* `if (!isFirstSync && existing.view_time >= lastSyncTime) { stopped = true; break; }`
cdpStopsAt(existing, isFirstSync, lastSyncTime) ==
  ~isFirstSync /\ existing.viewTime >= lastSyncTime

\* The transaction batchInsert of sync(): the table and the counters after it.
RECURSIVE cdpBatchInsert(_, _, _, _, _)
cdpBatchInsert(items, st, isFirstSync, lastSyncTime, newCount) ==
  IF items = <<>> THEN [store |-> st, newCount |-> newCount, stopped |-> FALSE]
  ELSE LET item == Head(items)
       IN IF hasRow(st, item.id, "youtube")
          THEN IF cdpStopsAt(getById(st, item.id, "youtube"), isFirstSync, lastSyncTime)
               THEN [store |-> st, newCount |-> newCount, stopped |-> TRUE]
               ELSE cdpBatchInsert(Tail(items), st, isFirstSync, lastSyncTime, newCount)
          ELSE cdpBatchInsert(Tail(items),
                              dbInsertOrIgnore(st, Row(item.id, item.platform, item.viewTime)),
                              isFirstSync, lastSyncTime, newCount + 1)

\* The items of a page, normalized at time t.
cdpNormalizeAll(page, t) == [i \in 1..Len(page) |-> cdpNormalizeItem(page[i], t)]

\* sync() up to `await CDP(...)`: validateConfig and _readSyncState.
cdpStartRun ==
  IF cdpValidateConfig
  THEN [IdleCdpRun EXCEPT !.pc = "browse",
                          !.lastSyncTime = cdpLastSyncTime,
                          !.isFirstSync = cdpLastSyncTime = 0]
  ELSE [IdleCdpRun EXCEPT !.pc = "failed", !.stop = "config"]

\* A caller starts sync() of the browser-automation provider.
CdpStart(c) ==
  /\ CanCall(c)
  /\ ~RunActive(crun.pc)
  /\ Called(c, "youtube-cdp")
  /\ crun' = cdpStartRun
  /\ UNCHANGED <<store, brun, xrun, yrun, xyzTok, xyzFile, xyzLastSyncTime, ytLastSyncTime,
                 authErrs, netErrs, xyzSeen, cdpLastSyncTime, del, auth, req, lookup, parse, tmpFiles, orch>>
  /\ UNCHANGED <<cookieVars, cfgVars>>

\* The connection, the navigation or the extraction throws: the catch of
\* sync() rethrows.
CdpFails ==
  /\ crun.pc = "browse"
  /\ netErrs < MaxNetErrs
  /\ netErrs' = netErrs + 1
  /\ crun' = [crun EXCEPT !.pc = "failed", !.stop = "error"]
  /\ UNCHANGED <<store, brun, xrun, yrun, xyzTok, xyzFile, xyzLastSyncTime, ytLastSyncTime,
                 authErrs, syncsLeft, last, xyzSeen, cdpLastSyncTime, del, auth, req, lookup, parse, tmpFiles, orch>>
  /\ UNCHANGED <<cookieVars, cfgVars>>

\* The page has been extracted: the rest of sync(), normalizeItem, batchInsert
\* and _saveSyncState.
CdpExtracted(rawItems) ==
  /\ crun.pc = "browse"
  /\ LET items == cdpNormalizeAll(rawItems, now)
         currentSyncTime == IF Len(items) > 0 THEN items[1].viewTime ELSE now
         r == cdpBatchInsert(items, store, crun.isFirstSync, crun.lastSyncTime, 0)
     IN IF Len(rawItems) = 0
        THEN /\ crun' = [crun EXCEPT !.pc = "done", !.stop = "empty",
                                     !.before = store, !.after = store]
             /\ UNCHANGED <<store, cdpLastSyncTime>>
        ELSE /\ store' = r.store
             /\ cdpLastSyncTime' = currentSyncTime
             /\ crun' = [crun EXCEPT !.pc = "done", !.newCount = r.newCount, !.saved = TRUE,
                                     !.stop = IF r.stopped THEN "existing" ELSE "end",
                                     !.items = items, !.before = store, !.after = r.store]
  /\ UNCHANGED <<brun, xrun, yrun, xyzTok, xyzFile, xyzLastSyncTime, ytLastSyncTime,
                 authErrs, netErrs, syncsLeft, last, xyzSeen, del, auth, req, lookup, parse, tmpFiles, orch>>
  /\ UNCHANGED <<cookieVars, cfgVars>>

\* sync() on a history page whose videos are numbered from the top
CdpSync == \E rawItems \in CdpPages : CdpExtracted(rawItems)

\* sync() on any history page
CdpSyncAny == \E rawItems \in CdpLists : CdpExtracted(rawItems)

(***************************************************************************)
(* Orchestrator (services/history.js)                                      *)
(***************************************************************************)

providerRegistry == <<"bilibili", "youtube", "youtube-cdp">>

\* provider.platform of each registered provider
platformOf(name) == IF name = "youtube-cdp" THEN "youtube" ELSE name

\* validateConfig of a registered provider
validConfig(name) ==
  IF name = "bilibili" THEN biliValidateConfig
  ELSE IF name = "youtube" THEN ytValidateConfig
  ELSE enabled[name]

\* initProviders: the instances kept in `providers`, in registry order.
providers == SelectSeq(providerRegistry, LAMBDA name : enabled[name] /\ validConfig(name))

\* getProvidersByPlatformValue
getProvidersByPlatformValue(platformValue) ==
  SelectSeq(providers, LAMBDA name : platformOf(name) = platformValue)

\* The caller whose provider runs syncHistory drives.
OrchCaller == "manual"

IdleOrch ==
  [pc |-> "idle", platform |-> "none", targets |-> <<>>, idx |-> 0, results |-> {},
   totalNew |-> 0, totalUpdate |-> 0, invoked |-> {}, syncCalls |-> <<>>]

\* The sync() of the named provider, as far as syncHistory sees it.
runOf(name) ==
  IF name = "bilibili" THEN brun[OrchCaller]
  ELSE IF name = "youtube" THEN yrun[OrchCaller]
  ELSE crun

\* The body of the loop after `await provider.sync()` that lets the error escape.
collectResult_Rethrow(o, name, run) ==
  IF run.pc = "done"
  THEN [o EXCEPT !.results = @ \cup {[name |-> name, error |-> FALSE,
                                      newCount |-> run.newCount,
                                      updateCount |-> run.updateCount]},
                 !.totalNew = @ + run.newCount,
                 !.totalUpdate = @ + run.updateCount]
  ELSE [o EXCEPT !.pc = "threw"]

\* The body of the loop after `await provider.sync()`: the try and the catch.
collectResult(o, name, run) ==
  IF run.pc = "done"
  THEN [o EXCEPT !.results = @ \cup {[name |-> name, error |-> FALSE,
                                      newCount |-> run.newCount,
                                      updateCount |-> run.updateCount]},
                 !.totalNew = @ + run.newCount,
                 !.totalUpdate = @ + run.updateCount]
  ELSE [o EXCEPT !.results = @ \cup {[name |-> name, error |-> TRUE,
                                      newCount |-> 0, updateCount |-> 0]}]

\* `provider.sync()` of the loop: the call runs up to its first await.
InvokeSync(name) ==
  /\ brun' = IF name = "bilibili" THEN [brun EXCEPT ![OrchCaller] = biliStartRun(FALSE)]
             ELSE brun
  /\ yrun' = IF name = "youtube" THEN [yrun EXCEPT ![OrchCaller] = ytStartRun(FALSE)]
             ELSE yrun
  /\ crun' = IF name = "youtube-cdp" THEN cdpStartRun ELSE crun

\* syncHistory(platform) up to the first `await provider.sync()`; "all" stands
\* for platform = null.
SyncHistoryStart(platform) ==
  /\ orch.pc = "idle"
  /\ ~Busy(OrchCaller) /\ ~RunActive(crun.pc)
  /\ LET targetProviders == IF platform # "all" THEN getProvidersByPlatformValue(platform)
                            ELSE providers
     IN IF targetProviders = <<>>
        THEN /\ orch' = [IdleOrch EXCEPT !.pc = "returned", !.platform = platform]
             /\ UNCHANGED <<brun, yrun, crun>>
        ELSE /\ orch' = [IdleOrch EXCEPT !.pc = "await", !.platform = platform,
                                         !.targets = targetProviders, !.idx = 1,
                                         !.invoked = {targetProviders[1]},
                                         !.syncCalls = <<targetProviders[1]>>]
             /\ InvokeSync(targetProviders[1])
  /\ UNCHANGED <<store, xrun, xyzTok, xyzFile, xyzSeen, cdpLastSyncTime, del, auth, req, lookup, parse, tmpFiles, xyzLastSyncTime, ytLastSyncTime,
                 authErrs, netErrs, syncsLeft, last>>
  /\ UNCHANGED <<cookieVars, cfgVars>>

\* The awaited sync() settles: the rest of the iteration, then the next
\* provider.sync() or the return.
SyncHistoryResume ==
  /\ orch.pc = "await"
  /\ LET name == orch.targets[orch.idx]
         run == runOf(name)
         o == collectResult(orch, name, run)
     IN /\ ~RunActive(run.pc)
        /\ IF o.pc = "threw"
           THEN /\ orch' = o
                /\ UNCHANGED <<brun, yrun, crun>>
           ELSE IF orch.idx < Len(orch.targets)
           THEN /\ orch' = [o EXCEPT !.idx = @ + 1,
                                     !.invoked = @ \cup {orch.targets[orch.idx + 1]},
                                     !.syncCalls = Append(@, orch.targets[orch.idx + 1])]
                /\ InvokeSync(orch.targets[orch.idx + 1])
           ELSE /\ orch' = [o EXCEPT !.pc = "returned"]
                /\ UNCHANGED <<brun, yrun, crun>>
  /\ UNCHANGED <<store, xrun, xyzTok, xyzFile, xyzSeen, cdpLastSyncTime, del, auth, req, lookup, parse, tmpFiles, xyzLastSyncTime, ytLastSyncTime,
                 authErrs, netErrs, syncsLeft, last>>
  /\ UNCHANGED <<cookieVars, cfgVars>>

\* The interval callback of a platform's auto-sync timer; the timer is started
\* only when config.providers[name].enabled.
AutoSyncTimerFires(name) ==
  /\ enabled[name]
  /\ SyncHistoryStart(name)

(***************************************************************************)
(* Deletion (DELETE /api/history/:id, deleteRemoteHistory, deleteRemote)    *)
(***************************************************************************)

NoItem == [id |-> 0, platform |-> "none", viewTime |-> 0]

\* The locals of the route handler and, below them, what the request has been
\* seen to do: the providers whose deleteRemote was called, the remote requests
\* sent, how the remote deletion ended, the table when the request came in.
IdleDelete ==
  [pc |-> "idle", id |-> 0, item |-> NoItem, isRetry |-> FALSE, count |-> 0,
   via |-> "none", called |-> {}, requests |-> 0, outcome |-> "none", status |-> 0,
   before |-> {}, afterRemote |-> {}]

\* The handler waits for the credential store or for the remote.
DeleteActive(pc) == pc \in {"delCookie", "delPost"}

\* Providers whose deleteRemote only logs a notice.
Unimplemented == {"xiaoyuzhou", "youtube", "youtube-cdp"}

\* deleteRemote of YouTubeProvider, XiaoyuzhouProvider and YouTubeCDPProvider
\* that rejects instead of answering false.
unimplementedDeleteRemote_Throws(item) == [returned |-> FALSE, threw |-> TRUE, requests |-> 0]

\* deleteRemote of YouTubeProvider, XiaoyuzhouProvider and YouTubeCDPProvider:
\* a log line and `return false`.
unimplementedDeleteRemote(item) == [returned |-> FALSE, threw |-> FALSE, requests |-> 0]

\* BilibiliProvider.getBiliJct ("" = null)
getBiliJct(cookie) ==
  LET cookieStr == IF cookie # EmptyString THEN cookie ELSE staticCookie["bilibili"]
      found == {i \in 1..Len(cookieStr) : cookieStr[i][1] = "bili_jct"}
  IN IF found = {} THEN "" ELSE cookieStr[CHOOSE i \in found : \A j \in found : i <= j][2]

\* deleteRemoteHistory that looks the provider up under the record's platform
\* as its registry name (getProvider).
resolveDeleteProvider_ByName(item) ==
  SelectSeq(providers, LAMBDA name : name = item.platform)

\* deleteRemoteHistory: `getProvidersByPlatformValue(item.platform)`, of which
\* the first entry is used.
resolveDeleteProvider(item) == getProvidersByPlatformValue(item.platform)

\* Cloud answers explored while a deletion runs.
DeleteCloudResponses(t) ==
  {[ok |-> FALSE, cookies |-> <<>>],
   [ok |-> TRUE, cookies |-> <<[name |-> "SESSDATA", value |-> "v1",
                                exp |-> t + REFRESH_BUFFER_SECONDS + 1],
                               [name |-> "bili_jct", value |-> "j1", exp |-> 0]>>]}

\* The route handler that keeps the local record when the remote deletion threw.
deleteLocal_UnlessThrown(st, id, outcome) ==
  IF outcome \in {"threw", "noprovider"} THEN st ELSE dbDeleteById(st, id)

\* The route handler after the try/catch around deleteRemoteHistory:
\* `stmts.deleteById.run(id)`, whatever the remote deletion came to.
deleteLocal(st, id, outcome) == dbDeleteById(st, id)

\* The rest of the route handler once `await deleteRemoteHistory(item)` has
\* settled: the catch that only warns, `stmts.deleteById.run(id)`, the answer.
finishDelete(d, outcome) ==
  [d EXCEPT !.pc = "responded", !.outcome = outcome, !.status = 200, !.afterRemote = store]

\* The route handler up to the first await that waits for something outside:
\* getById, the 404 answer, deleteRemoteHistory and, for a provider without
\* remote deletion, the rest of the handler.
DeleteRequest(id) ==
  /\ ~DeleteActive(del.pc)
  /\ del.count < MaxDeletes
  /\ LET d0 == [IdleDelete EXCEPT !.id = id, !.count = del.count + 1, !.via = "route",
                                  !.before = store]
     IN IF \A r \in store : r.id # id
        THEN /\ del' = [d0 EXCEPT !.pc = "responded", !.status = 404]
             /\ UNCHANGED store
        ELSE \E item \in {r \in store : r.id = id} :
               LET matched == resolveDeleteProvider(item)
                   d1 == [d0 EXCEPT !.item = item]
               IN IF matched = <<>>
                  THEN /\ del' = finishDelete(d1, "noprovider")
                       /\ store' = deleteLocal(store, id, "noprovider")
                  ELSE IF matched[1] \in Unimplemented
                  THEN LET r == unimplementedDeleteRemote(item)
                           d2 == [d1 EXCEPT !.called = {matched[1]}, !.requests = r.requests]
                       IN /\ del' = finishDelete(d2, IF r.threw THEN "threw"
                                                     ELSE IF r.returned THEN "true" ELSE "false")
                          /\ store' = deleteLocal(store, id, IF r.threw THEN "threw"
                                                          ELSE IF r.returned THEN "true" ELSE "false")
                  ELSE /\ del' = [d1 EXCEPT !.pc = "delCookie", !.called = {matched[1]}]
                       /\ UNCHANGED store
  /\ UNCHANGED <<brun, xrun, yrun, xyzTok, xyzFile, xyzLastSyncTime, ytLastSyncTime,
                 authErrs, netErrs, syncsLeft, last, xyzSeen, crun, cdpLastSyncTime, auth, req, lookup, parse, tmpFiles, orch>>
  /\ UNCHANGED <<cookieVars, cfgVars>>

\* BilibiliProvider.deleteRemote: `await this.getCookie()` and getBiliJct.
DeleteBiliGetCookie ==
  /\ del.pc = "delCookie"
  /\ \E cloud \in DeleteCloudResponses(now) :
       LET r == biliGetCookie(cache, FALSE, now, cloud)
       IN /\ cache' = r.cache
          /\ IF r.threw \/ getBiliJct(r.val) = ""
             THEN /\ del' = finishDelete(del, "threw")
                  /\ store' = deleteLocal(store, del.id, "threw")
             ELSE /\ del' = [del EXCEPT !.pc = "delPost"]
                  /\ UNCHANGED store
  /\ UNCHANGED <<brun, xrun, yrun, xyzTok, xyzFile, xyzLastSyncTime, ytLastSyncTime,
                 authErrs, netErrs, syncsLeft, last, xyzSeen, crun, cdpLastSyncTime, auth, req, lookup, parse, tmpFiles, orch>>
  /\ UNCHANGED <<cloudEnabled, staticCookie, ccDomain, now, ticks, calls, lastGet>>
  /\ UNCHANGED cfgVars

\* The POST to /x/v2/history/delete is answered with code 0: deleteRemote
\* returns true.
DeleteBiliPostOk ==
  /\ del.pc = "delPost"
  /\ del' = finishDelete([del EXCEPT !.requests = @ + 1], "true")
  /\ store' = deleteLocal(store, del.id, "true")
  /\ UNCHANGED <<brun, xrun, yrun, xyzTok, xyzFile, xyzLastSyncTime, ytLastSyncTime,
                 authErrs, netErrs, syncsLeft, last, xyzSeen, crun, cdpLastSyncTime, auth, req, lookup, parse, tmpFiles, orch>>
  /\ UNCHANGED <<cookieVars, cfgVars>>

\* The POST fails (transport) or is answered with an error that is no auth
\* error: deleteRemote throws.
DeleteBiliPostFails ==
  /\ del.pc = "delPost"
  /\ netErrs < MaxNetErrs
  /\ netErrs' = netErrs + 1
  /\ del' = finishDelete([del EXCEPT !.requests = @ + 1], "threw")
  /\ store' = deleteLocal(store, del.id, "threw")
  /\ UNCHANGED <<brun, xrun, yrun, xyzTok, xyzFile, xyzLastSyncTime, ytLastSyncTime,
                 authErrs, syncsLeft, last, xyzSeen, crun, cdpLastSyncTime, auth, req, lookup, parse, tmpFiles, orch>>
  /\ UNCHANGED <<cookieVars, cfgVars>>

\* The POST is answered with an auth error: throw, or refresh the cookie
\* (`await this.getCookie(true)`) and call deleteRemote(item, true).
DeleteBiliPostAuthError ==
  /\ del.pc = "delPost"
  /\ authErrs < MaxAuthErrs
  /\ authErrs' = authErrs + 1
  /\ IF del.isRetry \/ ~canRefreshFromCloud
     THEN /\ del' = finishDelete([del EXCEPT !.requests = @ + 1], "threw")
          /\ store' = deleteLocal(store, del.id, "threw")
          /\ UNCHANGED cache
     ELSE \E cloud \in DeleteCloudResponses(now) :
            LET r == biliGetCookie(cache, TRUE, now, cloud)
            IN /\ cache' = r.cache
               /\ IF r.threw
                  THEN /\ del' = finishDelete([del EXCEPT !.requests = @ + 1], "threw")
                       /\ store' = deleteLocal(store, del.id, "threw")
                  ELSE /\ del' = [del EXCEPT !.requests = @ + 1, !.isRetry = TRUE,
                                             !.pc = "delCookie"]
                       /\ UNCHANGED store
  /\ UNCHANGED <<brun, xrun, yrun, xyzTok, xyzFile, xyzLastSyncTime, ytLastSyncTime,
                 netErrs, syncsLeft, last, xyzSeen, crun, cdpLastSyncTime, auth, req, lookup, parse, tmpFiles, orch>>
  /\ UNCHANGED <<cloudEnabled, staticCookie, ccDomain, now, ticks, calls, lastGet>>
  /\ UNCHANGED cfgVars

\* deleteRemote(item) of a provider without remote deletion, called on the
\* provider instance itself.
CallDeleteRemote(name, item) ==
  /\ ~DeleteActive(del.pc)
  /\ del.count < MaxDeletes
  /\ name \in Unimplemented
  /\ LET r == unimplementedDeleteRemote(item)
     IN del' = [IdleDelete EXCEPT !.pc = "done", !.id = item.id, !.item = item,
                                  !.count = del.count + 1, !.via = name,
                                  !.called = {name}, !.requests = r.requests,
                                  !.outcome = IF r.threw THEN "threw"
                                              ELSE IF r.returned THEN "true" ELSE "false",
                                  !.before = store, !.afterRemote = store]
  /\ UNCHANGED <<store, brun, xrun, yrun, xyzTok, xyzFile, xyzLastSyncTime, ytLastSyncTime,
                 authErrs, netErrs, syncsLeft, last, xyzSeen, crun, cdpLastSyncTime, auth, req, lookup, parse, tmpFiles, orch>>
  /\ UNCHANGED <<cookieVars, cfgVars>>

(***************************************************************************)
(* Password gate (middleware/auth.js)                                      *)
(***************************************************************************)

\* Client addresses (getClientIp)
Clients == {"a", "b"}

\* Passwords a request can carry; "" is a request without one.
Passwords == {"", "pw", "guess"}

\* attemptRecords.get(ip) of an address without record; lockedUntil 0 is null.
NoAttempts == [present |-> FALSE, attempts |-> 0, lockedUntil |-> 0]

\* What the specification of the lockout expects for an address: the failed
\* verifications in a row and the time of the one that locked it (0 = none).
NoFailures == [fails |-> 0, lockedAt |-> 0]

\* Wrong values of an address compared with the password, by route, since its
\* last successful verification or the end of its last lockout.
NoGuesses == [verify |-> 0, protected |-> 0]

\* The count after a request at time t: a lockout that has run out, or a
\* successful verification, starts it anew; a wrong value compared adds one.
GuessesAfter(g, record, route, t, compared, correct) ==
  LET base == IF record.lockedUntil # 0 /\ t >= record.lockedUntil THEN NoGuesses ELSE g
  IN IF ~compared THEN base
     ELSE IF correct THEN (IF route = "verify" THEN NoGuesses ELSE base)
     ELSE [base EXCEPT ![route] = @ + 1]

NoAnswer ==
  [called |-> FALSE, route |-> "none", ip |-> "none", input |-> "", at |-> 0, status |-> 0,
   remainingAttempts |-> 0, lockedOnArrival |-> FALSE, failsAfter |-> 0, compared |-> FALSE]

\* authConfig, attemptRecords, and below them what has been observed.
AuthStart(config) ==
  [config |-> config, records |-> [ip \in Clients |-> NoAttempts],
   expected |-> [ip \in Clients |-> NoFailures], last |-> NoAnswer, count |-> 0,
   guesses |-> [ip \in Clients |-> NoGuesses]]

\* getAttemptRecord
getAttemptRecord(records, ip) ==
  IF records[ip].present THEN records
  ELSE [records EXCEPT ![ip] = [present |-> TRUE, attempts |-> 0, lockedUntil |-> 0]]

\* checkLockStatus that keeps the attempts of an expired lockout.
checkLockStatus_KeepAttempts(records, ip, t) ==
  LET rs == getAttemptRecord(records, ip)
  IN IF rs[ip].lockedUntil # 0 /\ t < rs[ip].lockedUntil
     THEN [locked |-> TRUE, remainingTime |-> rs[ip].lockedUntil - t, records |-> rs]
     ELSE [locked |-> FALSE, remainingTime |-> 0,
           records |-> [rs EXCEPT ![ip].lockedUntil = 0]]

\* checkLockStatus
checkLockStatus(records, ip, t) ==
  LET rs == getAttemptRecord(records, ip)
  IN IF rs[ip].lockedUntil # 0 /\ t < rs[ip].lockedUntil
     THEN [locked |-> TRUE, remainingTime |-> rs[ip].lockedUntil - t, records |-> rs]
     ELSE [locked |-> FALSE, remainingTime |-> 0,
           records |-> IF rs[ip].lockedUntil # 0
                       THEN [rs EXCEPT ![ip].attempts = 0, ![ip].lockedUntil = 0]
                       ELSE rs]

\* recordFailedAttempt
recordFailedAttempt(records, ip, maxAttempts, lockoutDuration, t) ==
  LET rs == getAttemptRecord(records, ip)
      attempts == rs[ip].attempts + 1
  IN IF attempts >= maxAttempts
     THEN [locked |-> TRUE, remainingAttempts |-> 0,
           records |-> [rs EXCEPT ![ip].attempts = attempts,
                                  ![ip].lockedUntil = t + lockoutDuration]]
     ELSE [locked |-> FALSE, remainingAttempts |-> maxAttempts - attempts,
           records |-> [rs EXCEPT ![ip].attempts = attempts]]

\* resetAttempts
resetAttempts(records, ip) == [records EXCEPT ![ip] = NoAttempts]

\* The lockout as specified: is the address locked at time t
ExpectLocked(e, config, t) == e.lockedAt # 0 /\ t < e.lockedAt + config.lockoutDuration

\* The lockout as specified: the bookkeeping after a verification at time t
\* that was not refused.
ExpectAfter(e, config, t, correct) ==
  LET fails == IF e.lockedAt # 0 THEN 0 ELSE e.fails
  IN IF correct THEN NoFailures
     ELSE IF fails + 1 >= config.maxAttempts THEN [fails |-> fails + 1, lockedAt |-> t]
     ELSE [fails |-> fails + 1, lockedAt |-> 0]

\* POST /api/auth/verify
AuthVerify(ip, input) ==
  /\ auth.count < MaxAuthRequests
  /\ LET cfg == auth.config
         e == auth.expected[ip]
         lockStatus == checkLockStatus(auth.records, ip, now)
         seen == [NoAnswer EXCEPT !.called = TRUE, !.route = "verify", !.ip = ip,
                                  !.input = input, !.at = now,
                                  !.lockedOnArrival = ExpectLocked(e, cfg, now)]
     IN IF lockStatus.locked
        THEN auth' = [auth EXCEPT !.records = lockStatus.records, !.count = @ + 1,
                                  !.guesses[ip] = GuessesAfter(@, auth.records[ip], "verify", now,
                                                               FALSE, FALSE),
                                  !.last = [seen EXCEPT !.status = 429]]
        ELSE IF cfg.password = ""
        THEN auth' = [auth EXCEPT !.records = lockStatus.records, !.count = @ + 1,
                                  !.last = [seen EXCEPT !.status = 200]]
        ELSE IF input = cfg.password
        THEN auth' = [auth EXCEPT !.records = resetAttempts(lockStatus.records, ip),
                                  !.count = @ + 1,
                                  !.guesses[ip] = GuessesAfter(@, auth.records[ip], "verify", now,
                                                               TRUE, TRUE),
                                  !.expected[ip] = IF seen.lockedOnArrival THEN e
                                                   ELSE ExpectAfter(e, cfg, now, TRUE),
                                  !.last = [seen EXCEPT !.status = 200, !.compared = TRUE]]
        ELSE LET attemptResult == recordFailedAttempt(lockStatus.records, ip,
                                                      cfg.maxAttempts, cfg.lockoutDuration, now)
                 after == IF seen.lockedOnArrival THEN e ELSE ExpectAfter(e, cfg, now, FALSE)
             IN auth' = [auth EXCEPT !.records = attemptResult.records, !.count = @ + 1,
                                     !.expected[ip] = after,
                                     !.guesses[ip] = GuessesAfter(@, auth.records[ip], "verify",
                                                                  now, TRUE, FALSE),
                                     !.last = [seen EXCEPT
                                        !.compared = TRUE,
                                        !.status = IF attemptResult.locked THEN 429 ELSE 401,
                                        !.remainingAttempts = attemptResult.remainingAttempts,
                                        !.failsAfter = after.fails]]
  /\ UNCHANGED <<cookieVars, cfgVars>>
  /\ UNCHANGED <<store, brun, xrun, yrun, xyzTok, xyzFile, xyzLastSyncTime, ytLastSyncTime,
                 authErrs, netErrs, syncsLeft, last, xyzSeen, crun, cdpLastSyncTime, del, req, lookup, parse, tmpFiles, orch>>

\* GET /api/auth/status
AuthStatus(ip) ==
  /\ auth.count < MaxAuthRequests
  /\ LET cfg == auth.config
         lockStatus == checkLockStatus(auth.records, ip, now)
         record == lockStatus.records[ip]
     IN auth' = [auth EXCEPT !.records = lockStatus.records, !.count = @ + 1,
                   !.guesses[ip] = GuessesAfter(@, auth.records[ip], "status", now, FALSE, FALSE),
                   !.last = [NoAnswer EXCEPT !.called = TRUE, !.route = "status", !.ip = ip,
                      !.at = now, !.status = 200,
                      !.lockedOnArrival = ExpectLocked(auth.expected[ip], cfg, now),
                      !.remainingAttempts = IF lockStatus.locked THEN 0
                                            ELSE cfg.maxAttempts - record.attempts]]
  /\ UNCHANGED <<cookieVars, cfgVars>>
  /\ UNCHANGED <<store, brun, xrun, yrun, xyzTok, xyzFile, xyzLastSyncTime, ytLastSyncTime,
                 authErrs, netErrs, syncsLeft, last, xyzSeen, crun, cdpLastSyncTime, del, req, lookup, parse, tmpFiles, orch>>

\* A request to a path outside the whitelist, carrying X-Auth-Token: the
\* handler createAuthMiddleware returns.
AuthProtected(ip, token) ==
  /\ auth.count < MaxAuthRequests
  /\ LET cfg == auth.config
         seen == [NoAnswer EXCEPT !.called = TRUE, !.route = "protected", !.ip = ip,
                                  !.input = token, !.at = now,
                                  !.lockedOnArrival = ExpectLocked(auth.expected[ip], cfg, now)]
     IN auth' = [auth EXCEPT !.count = @ + 1,
                   !.guesses[ip] = GuessesAfter(@, auth.records[ip], "protected", now,
                                                cfg.password # "" /\ token # "",
                                                token = cfg.password),
                   !.last = [seen EXCEPT !.compared = cfg.password # "" /\ token # "",
                                         !.status = IF cfg.password = "" \/ token = cfg.password
                                                    THEN 200 ELSE 401]]
  /\ UNCHANGED <<cookieVars, cfgVars>>
  /\ UNCHANGED <<store, brun, xrun, yrun, xyzTok, xyzFile, xyzLastSyncTime, ytLastSyncTime,
                 authErrs, netErrs, syncsLeft, last, xyzSeen, crun, cdpLastSyncTime, del, req, lookup, parse, tmpFiles, orch>>

(***************************************************************************)
(* fetchWithRetry (providers/bilibili.js, providers/xiaoyuzhou.js)         *)
(***************************************************************************)

\* REQUEST_CONFIG.maxRetries, API_CONFIG.maxRetries
maxRetries == 3

\* REQUEST_CONFIG.retryDelay, API_CONFIG.retryDelay (milliseconds)
retryDelay == 2000

\* Statuses a response can carry
HttpStatuses == {200, 401, 500}

\* req: pc, the provider whose fetchWithRetry runs, the parameter `retries` of
\* the innermost call, the calls of fetch made (attempts) and rejected
\* (rejections), the arguments of the sleep calls, the status of the response
\* returned, and the outcomes of the finished requests.
IdleRequest ==
  [pc |-> "idle", provider |-> "none", retries |-> 0, attempts |-> 0, rejections |-> 0,
   sleeps |-> <<>>, status |-> 0, finished |-> <<>>]

\* The outcome of a logical request, as kept in req.finished
Outcome(r) == [threw |-> r.pc = "threw", status |-> r.status, attempts |-> r.attempts]

\* The catch branch that retries once more after the retries are used up.
onReject_OneMore(r) ==
  IF r.retries >= 0
  THEN [r EXCEPT !.pc = "sleeping", !.sleeps = Append(@, retryDelay)]
  ELSE [r EXCEPT !.pc = "threw"]

\* `catch (error) { if (retries > 0) { await sleep(retryDelay); ... } throw error; }`
onReject(r) ==
  IF r.retries > 0
  THEN [r EXCEPT !.pc = "sleeping", !.sleeps = Append(@, retryDelay)]
  ELSE [r EXCEPT !.pc = "threw"]

\* A provider calls fetchWithRetry(url, options): retries takes its default and
\* fetch is called.
FetchWithRetry(provider) ==
  /\ req.pc \in {"idle", "returned", "threw"}
  /\ Len(req.finished) < MaxRequests
  /\ req' = [IdleRequest EXCEPT !.pc = "fetching", !.provider = provider,
                                !.retries = maxRetries, !.attempts = 1,
                                !.finished = req.finished]
  /\ UNCHANGED <<store, brun, xrun, yrun, xyzTok, xyzFile, xyzLastSyncTime, ytLastSyncTime,
                 authErrs, netErrs, syncsLeft, last, xyzSeen, crun, cdpLastSyncTime, del,
                 auth, lookup, parse, tmpFiles, orch>>
  /\ UNCHANGED <<cookieVars, cfgVars>>

\* `const response = await fetch(url, options); return response;`: a response
\* arrives, whatever its status.
FetchResolves(status) ==
  /\ req.pc = "fetching"
  /\ LET r == [req EXCEPT !.pc = "returned", !.status = status]
     IN req' = [r EXCEPT !.finished = Append(@, Outcome(r))]
  /\ UNCHANGED <<store, brun, xrun, yrun, xyzTok, xyzFile, xyzLastSyncTime, ytLastSyncTime,
                 authErrs, netErrs, syncsLeft, last, xyzSeen, crun, cdpLastSyncTime, del,
                 auth, lookup, parse, tmpFiles, orch>>
  /\ UNCHANGED <<cookieVars, cfgVars>>

\* fetch rejects (no response): the catch branch up to its await or its throw.
FetchRejects ==
  /\ req.pc = "fetching"
  /\ LET r == onReject([req EXCEPT !.rejections = @ + 1])
     IN req' = IF r.pc = "threw" THEN [r EXCEPT !.finished = Append(@, Outcome(r))] ELSE r
  /\ UNCHANGED <<store, brun, xrun, yrun, xyzTok, xyzFile, xyzLastSyncTime, ytLastSyncTime,
                 authErrs, netErrs, syncsLeft, last, xyzSeen, crun, cdpLastSyncTime, del,
                 auth, lookup, parse, tmpFiles, orch>>
  /\ UNCHANGED <<cookieVars, cfgVars>>

\* The sleep is over: `return fetchWithRetry(url, options, retries - 1)` up to
\* its call of fetch.
SleepEnds ==
  /\ req.pc = "sleeping"
  /\ req' = [req EXCEPT !.pc = "fetching", !.retries = @ - 1, !.attempts = @ + 1]
  /\ UNCHANGED <<store, brun, xrun, yrun, xyzTok, xyzFile, xyzLastSyncTime, ytLastSyncTime,
                 authErrs, netErrs, syncsLeft, last, xyzSeen, crun, cdpLastSyncTime, del,
                 auth, lookup, parse, tmpFiles, orch>>
  /\ UNCHANGED <<cookieVars, cfgVars>>

(***************************************************************************)
(* CookieCloudClient: lookup of a domain in the decrypted payload          *)
(***************************************************************************)

\* Domain names are sequences of characters.
DomainChars == {".", "a"}

DomainNames == SeqsUpTo(DomainChars, MaxDomainLen) \ {<<>>}

\* The values a key of cookie_data can hold: arrays of cookies.
CookieArrays == {<<>>, <<"c1">>, <<"c2">>}

\* cookie_data: the entries [domain, cookies] in the order of Object.keys
CookieDatas ==
  {d \in SeqsUpTo([domain : DomainNames, cookies : CookieArrays], MaxKeys) :
     \A i \in 1..Len(d), j \in 1..Len(d) : d[i].domain = d[j].domain => i = j}

\* No lookup has been made; a lookup keeps its arguments and its outcome.
NoLookup ==
  [called |-> FALSE, cookieData |-> <<>>, domain |-> <<>>, threw |-> FALSE,
   cookies |-> <<>>, listed |-> <<>>]

\* `null` and the arrays _findDomainCookies returns
Null == [isNull |-> TRUE, cookies |-> <<>>]
Found(cookies) == [isNull |-> FALSE, cookies |-> cookies]

\* Object.keys(cookieData)
ObjectKeys(cookieData) == [i \in 1..Len(cookieData) |-> cookieData[i].domain]

\* `cookieData[key]` is truthy: the key is there (an array, empty or not, is truthy)
HasKey(cookieData, key) == \E i \in 1..Len(cookieData) : cookieData[i].domain = key

\* cookieData[key]
ValueAt(cookieData, key) ==
  cookieData[CHOOSE i \in 1..Len(cookieData) : cookieData[i].domain = key].cookies

\* String.prototype.endsWith
endsWith(s, suffix) ==
  /\ Len(suffix) <= Len(s)
  /\ SubSeq(s, Len(s) - Len(suffix) + 1, Len(s)) = suffix

\* The variant step that tries the target itself again.
variantOf_Same(targetDomain) == targetDomain

\* `variant`: the target without its leading dot, or with one put in front
variantOf(targetDomain) ==
  IF Len(targetDomain) > 0 /\ targetDomain[1] = "." THEN Tail(targetDomain)
  ELSE <<".">> \o targetDomain

\* CookieCloudClient._findDomainCookies
findDomainCookies(cookieData, targetDomain) ==
  LET variant == variantOf(targetDomain)
      sub == {i \in 1..Len(cookieData) :
                \/ endsWith(cookieData[i].domain, targetDomain)
                \/ endsWith(targetDomain, cookieData[i].domain)}
  IN IF HasKey(cookieData, targetDomain) THEN Found(ValueAt(cookieData, targetDomain))
     ELSE IF HasKey(cookieData, variant) THEN Found(ValueAt(cookieData, variant))
     ELSE IF sub # {}
     THEN Found(cookieData[CHOOSE i \in sub : \A j \in sub : i <= j].cookies)
     ELSE Null

\* CookieCloudClient.getCookiesForDomain on a fetched payload: the cookies it
\* goes on with, or the error that lists the available domains.
GetCookiesForDomain(cookieData, domain) ==
  /\ ~lookup.called
  /\ LET cookies == findDomainCookies(cookieData, domain)
     IN lookup' =
          IF cookies.isNull \/ Len(cookies.cookies) = 0
          THEN [called |-> TRUE, cookieData |-> cookieData, domain |-> domain,
                threw |-> TRUE, cookies |-> <<>>, listed |-> ObjectKeys(cookieData)]
          ELSE [called |-> TRUE, cookieData |-> cookieData, domain |-> domain,
                threw |-> FALSE, cookies |-> cookies.cookies, listed |-> <<>>]
  /\ UNCHANGED <<store, brun, xrun, yrun, xyzTok, xyzFile, xyzLastSyncTime, ytLastSyncTime,
                 authErrs, netErrs, syncsLeft, last, xyzSeen, crun, cdpLastSyncTime, del,
                 auth, req, parse, tmpFiles, orch>>
  /\ UNCHANGED <<cookieVars, cfgVars>>

(***************************************************************************)
(* The day headers of the history page (providers/youtube-cdp.js)          *)
(*                                                                         *)
(* Local time is counted in whole hours from 2023-01-01 00:00, a Sunday;   *)
(* a Date is [day, hour] with day the number of days since then.           *)
(***************************************************************************)

BaseYear == 2023

\* `const monthMap = {...}`: the index of a month name, -1 for undefined
monthMap(month) ==
  LET names == <<"Jan", "Feb", "Mar", "Apr", "May", "Jun",
                 "Jul", "Aug", "Sep", "Oct", "Nov", "Dec">>
  IN IF \E i \in 1..12 : names[i] = month
     THEN (CHOOSE i \in 1..12 : names[i] = month) - 1
     ELSE -1

\* `const weekdayMap = {...}`: -1 for a name it does not have
weekdayMap(name) ==
  LET names == <<"Sunday", "Monday", "Tuesday", "Wednesday", "Thursday",
                 "Friday", "Saturday">>
  IN IF \E i \in 1..7 : names[i] = name
     THEN (CHOOSE i \in 1..7 : names[i] = name) - 1
     ELSE -1

isLeapYear(y) == (y % 4 = 0 /\ y % 100 # 0) \/ y % 400 = 0

\* Days from 2023-01-01 to January 1st of year y
daysBeforeYear(y) ==
  (y - BaseYear) * 365 + Cardinality({x \in BaseYear..(y - 1) : isLeapYear(x)})

\* Days from January 1st of year y to the 1st of the month with index m
daysBeforeMonth(y, m) ==
  <<0, 31, 59, 90, 120, 151, 181, 212, 243, 273, 304, 334>>[m + 1]
    + (IF isLeapYear(y) /\ m >= 2 THEN 1 ELSE 0)

\* new Date(year, monthIndex, day): the day number; a day past the end of the
\* month runs on into the next one.
newDate(year, monthIndex, day) ==
  daysBeforeYear(year) + daysBeforeMonth(year, monthIndex) + day - 1

\* Date.prototype.getFullYear
getFullYear(date) ==
  CHOOSE y \in BaseYear..(BaseYear + 5) :
    daysBeforeYear(y) <= date.day /\ date.day < daysBeforeYear(y + 1)

\* Date.prototype.getDay: 0 is Sunday
getDay(date) == date.day % 7

\* `this.timezoneOffset = config?.timezoneOffset || 8`: 0 stands for a value
\* that is not configured as well
cdpTimezoneOffset(configured) == IF configured = 0 THEN 8 ELSE configured

\* Math.floor((date.getTime() - timezoneOffset * 3600000) / 1000) of the
\* start of a day
utcTimestamp(day, timezoneOffset) == (day * 24 - timezoneOffset) * 3600

\* Math.floor(Date.now() / 1000)
nowSeconds(nowDate) == (nowDate.day * 24 + nowDate.hour) * 3600

\* The year of a "Mon D" header when the roll-back goes by the day alone
yearOfMonthDay_SameDayBack(nowDate, monthIndex, day) ==
  IF newDate(getFullYear(nowDate), monthIndex, day) >= nowDate.day
  THEN getFullYear(nowDate) - 1 ELSE getFullYear(nowDate)

\* `let year = currentYear; if (testDate > now) year -= 1;`
yearOfMonthDay(nowDate, monthIndex, day) ==
  IF newDate(getFullYear(nowDate), monthIndex, day) * 24 > nowDate.day * 24 + nowDate.hour
  THEN getFullYear(nowDate) - 1 ELSE getFullYear(nowDate)

\* `let daysAgo = currentWeekday - targetWeekday; if (daysAgo <= 0) daysAgo += 7;`
daysAgoOf(currentWeekday, targetWeekday) ==
  IF currentWeekday - targetWeekday <= 0
  THEN currentWeekday - targetWeekday + 7 ELSE currentWeekday - targetWeekday

\* The header strings, as the parts the patterns of _parseDateString take them
\* apart into: [word] for one word, [month, day] and [month, day, year].
IsWord(dateStr) == DOMAIN dateStr = {"word"}
IsMonthDay(dateStr) == DOMAIN dateStr = {"month", "day"}
IsFullDate(dateStr) == DOMAIN dateStr = {"month", "day", "year"}

\* YouTubeCDPProvider._parseDateString(dateStr) at the local time `now`
parseDateString(dateStr, nowDate, timezoneOffset) ==
  IF IsWord(dateStr) /\ dateStr.word \in {"Today", "today"}
  THEN utcTimestamp(nowDate.day, timezoneOffset)
  ELSE IF IsWord(dateStr) /\ dateStr.word \in {"Yesterday", "yesterday"}
  THEN utcTimestamp(nowDate.day - 1, timezoneOffset)
  ELSE IF IsFullDate(dateStr) /\ monthMap(dateStr.month) # -1
  THEN utcTimestamp(newDate(dateStr.year, monthMap(dateStr.month), dateStr.day),
                    timezoneOffset)
  ELSE IF IsMonthDay(dateStr) /\ monthMap(dateStr.month) # -1
  THEN utcTimestamp(newDate(yearOfMonthDay(nowDate, monthMap(dateStr.month), dateStr.day),
                            monthMap(dateStr.month), dateStr.day),
                    timezoneOffset)
  ELSE IF IsWord(dateStr) /\ weekdayMap(dateStr.word) # -1
  THEN utcTimestamp(nowDate.day - daysAgoOf(getDay(nowDate), weekdayMap(dateStr.word)),
                    timezoneOffset)
  ELSE nowSeconds(nowDate)

NoParse == [called |-> FALSE]

\* One call of _parseDateString
ParseDateString(dateStr, nowDate, timezoneOffset) ==
  /\ ~parse.called
  /\ parse' = [called |-> TRUE, dateStr |-> dateStr, now |-> nowDate,
               timezoneOffset |-> timezoneOffset,
               result |-> parseDateString(dateStr, nowDate, timezoneOffset)]
  /\ UNCHANGED <<store, brun, xrun, yrun, xyzTok, xyzFile, xyzLastSyncTime, ytLastSyncTime,
                 authErrs, netErrs, syncsLeft, last, xyzSeen, crun, cdpLastSyncTime, del,
                 auth, req, lookup, tmpFiles, orch>>
  /\ UNCHANGED <<cookieVars, cfgVars>>

(***************************************************************************)
(* Initial states and specifications                                       *)
(***************************************************************************)

ProviderNames == Providers \cup {"youtube-cdp"}

\* config.providers with exactly the providers of S enabled
Only(S) == [p \in ProviderNames |-> p \in S]

NoTokens == [initialized |-> FALSE, accessToken |-> NoToken, refreshToken |-> NoToken,
             deviceId |-> NoToken]

NoTokenFile == [present |-> FALSE, accessToken |-> NoToken, refreshToken |-> NoToken,
                deviceId |-> NoToken]

NoXyzConfig == [accessToken |-> NoToken, refreshToken |-> NoToken, deviceId |-> NoToken]

\* config.auth of an installation without password gate
NoAuthConfig == [password |-> "", maxAttempts |-> 5, lockoutDuration |-> 300000]

\* The process has just started: no sync has run, the clock reads StartTime.
ProcessObjects ==
  /\ now = StartTime
  /\ ticks = 0
  /\ calls = 0
  /\ lastGet = NoObservation
  /\ brun = [c \in SyncCallers |-> IdleBiliRun]
  /\ xrun = [c \in SyncCallers |-> IdleXyzRun]
  /\ yrun = [c \in SyncCallers |-> IdleYtRun]
  /\ xyzTok = NoTokens
  /\ xyzSeen = NothingSeen
  /\ crun = IdleCdpRun
  /\ req = IdleRequest
  /\ lookup = NoLookup
  /\ parse = NoParse /\ tmpFiles = {}
  /\ del = IdleDelete
  /\ auth = AuthStart(NoAuthConfig)
  /\ authErrs = 0
  /\ netErrs = 0
  /\ last = [c \in SyncCallers |-> "none"]
  /\ orch = IdleOrch

\* The process has started without sync state file of the browser-automation
\* provider.
ProcessStart ==
  /\ ProcessObjects
  /\ cdpLastSyncTime = 0

\* The first start of the process: no cache file, no token state file.
FreshProcess ==
  /\ ProcessStart
  /\ cache = [p \in CookiePlatforms |-> NoEntry]
  /\ xyzFile = NoTokenFile

NoBilibili == biliRemote = <<>> /\ biliRepeats = FALSE

NoXiaoyuzhou ==
  /\ xyzRemote = <<>>
  /\ xyzTrailingKey = FALSE
  /\ xyzCfg = NoXyzConfig
  /\ xyzMaxPages = 20
  /\ xyzLastSyncTime = 0

NoYouTube ==
  /\ ytRemote = <<>>
  /\ ytFirstSyncCount = 100
  /\ ytLastSyncTime = 0

InitCookie ==
  /\ FreshProcess
  /\ cloudEnabled \in BOOLEAN
  /\ staticCookie \in [CookiePlatforms -> {EmptyString, <<<<"SESSDATA", "s0">>>>}]
  /\ ccDomain \in {{"bilibili"}, {"bilibili", "youtube"}}
  /\ enabled = Only({})
  /\ store = {}
  /\ NoBilibili /\ NoXiaoyuzhou /\ NoYouTube
  /\ syncsLeft = [c \in SyncCallers |-> 0]

NextCookie ==
  \/ \E p \in CookiePlatforms : GetCookie(p)
  \/ \E p \in CookiePlatforms : RefreshCookie(p)
  \/ \E p \in CookiePlatforms : InvalidateCache(p)
  \/ Tick

SpecCookie == InitCookie /\ [][NextCookie]_vars

\* ---- the credential store started on the cache file of an earlier run ----

\* Entries an earlier run of the process can have left in the cache file.
PersistedEntries ==
  {NoEntry} \cup
  {[present |-> TRUE, cookie |-> <<<<"SESSDATA", "v0">>>>, expires |-> e,
    cachedAt |-> StartTime - 1] : e \in {0, StartTime + REFRESH_BUFFER_SECONDS + 1}}

InitCacheFile ==
  /\ ProcessStart
  /\ cache \in [CookiePlatforms -> PersistedEntries]
  /\ xyzFile = NoTokenFile
  /\ cloudEnabled \in BOOLEAN
  /\ staticCookie \in {[p \in CookiePlatforms |-> v] : v \in {EmptyString, <<<<"SESSDATA", "s0">>>>}}
  /\ ccDomain = {"bilibili", "youtube"}
  /\ enabled = Only({})
  /\ store = {}
  /\ NoBilibili /\ NoXiaoyuzhou /\ NoYouTube
  /\ syncsLeft = [c \in SyncCallers |-> 0]

SpecCacheFile == InitCacheFile /\ [][NextCookie]_vars

\* ---- Bilibili installations ----

\* Raw records the small remote histories are built from: id 1 shows up with two
\* different view times (a re-watch), so a list can repeat an id.
BiliRecords == {[oid |-> 1, view_at |-> 10], [oid |-> 2, view_at |-> 20],
                [oid |-> 1, view_at |-> 30]}

BiliPages == SeqsUpTo(BiliRecords, MaxPageLen) \ {<<>>}

BiliRemotes == SeqsUpTo(BiliPages, MaxBiliPages)

\* Rows a store can hold before the first step: earlier runs of Bilibili.
InitialRows == {Row(1, "bilibili", 10)}

\* A row of another platform that has the same id as a Bilibili record.
OtherPlatformRows == {Row(1, "youtube", 10)}

BiliInstallation ==
  /\ enabled = Only({"bilibili"})
  /\ cloudEnabled \in BOOLEAN
  /\ staticCookie \in [CookiePlatforms -> {EmptyString, <<<<"SESSDATA", "s0">>>>}]
  /\ staticCookie["youtube"] = EmptyString
  /\ biliValidateConfig
  /\ ccDomain = {"bilibili"}
  /\ store \in {OtherPlatformRows \cup rows : rows \in SUBSET InitialRows}
  /\ biliRemote \in BiliRemotes
  /\ biliRepeats = FALSE
  /\ NoXiaoyuzhou /\ NoYouTube

\* ---- Xiaoyuzhou installations ----

\* Two listening histories, newest first: one of distinct episodes, one that
\* repeats episodes and has records without eid (eid 0).
XyzFeedDistinct(i) == [eid |-> i]
XyzFeedRepeats(i) == [eid |-> IF i % 3 = 0 THEN 0 ELSE (i % 4) + 1]

\* The page lengths the history API answers with.
XyzPageLens == {1, 3}

\* The record at position i of a long history of distinct videos.
StreamRecord(i) == [oid |-> i, view_at |-> 10]

\* Record i of the remote history of the given kind.
FeedRecord(kind, i) ==
  IF kind = "distinct" THEN XyzFeedDistinct(i)
  ELSE IF kind = "repeats" THEN XyzFeedRepeats(i)
  ELSE StreamRecord(i)

\* The first pages of a feed, cut at the given page lengths.
RECURSIVE Paginate(_, _, _)
Paginate(kind, lens, from) ==
  IF lens = <<>> THEN <<>>
  ELSE <<[i \in 1..Head(lens) |-> FeedRecord(kind, from + i)]>>
         \o Paginate(kind, Tail(lens), from + Head(lens))

XyzRemotes ==
  {Paginate(kind, lens, 0) : kind \in {"distinct", "repeats"},
                             lens \in SeqsUpTo(XyzPageLens, MaxXyzPages)}

XyzConfigs ==
  {[accessToken |-> 1, refreshToken |-> 1, deviceId |-> 1],
   [accessToken |-> NoToken, refreshToken |-> 1, deviceId |-> NoToken],
   [accessToken |-> 1, refreshToken |-> NoToken, deviceId |-> 1]}

\* Episodes an earlier sync can have stored.
XyzInitialRows == {Row(3, "xiaoyuzhou", StartTime - 1), Row(5, "xiaoyuzhou", StartTime - 1)}

XyzInstallation ==
  /\ enabled = Only({"xiaoyuzhou"})
  /\ cloudEnabled = FALSE
  /\ staticCookie = [p \in CookiePlatforms |-> EmptyString]
  /\ ccDomain = {"bilibili"}
  /\ xyzCfg \in XyzConfigs
  /\ xyzRemote \in XyzRemotes
  /\ xyzTrailingKey \in BOOLEAN
  /\ xyzMaxPages \in 1..MaxCfgPages
  /\ xyzLastSyncTime \in {0, StartTime - 1}
  /\ store \in SUBSET XyzInitialRows
  /\ NoBilibili /\ NoYouTube

\* ---- YouTube installations ----

YtFeeds ==
  {[i \in 1..n |-> [id |-> XyzFeedDistinct(i).eid]] : n \in 0..MaxYtEntries} \cup
  {[i \in 1..n |-> [id |-> XyzFeedRepeats(i).eid]] : n \in 0..MaxYtEntries}

YtInstallation ==
  /\ enabled = Only({"youtube"})
  /\ cloudEnabled = TRUE
  /\ staticCookie = [p \in CookiePlatforms |-> EmptyString]
  /\ ccDomain = {"bilibili", "youtube"}
  /\ ytRemote \in YtFeeds
  /\ ytFirstSyncCount \in 1..2
  /\ ytLastSyncTime = 0
  /\ store = {}
  /\ NoBilibili /\ NoXiaoyuzhou

\* ---- one sync() call, from any installation ----

InitSync ==
  /\ FreshProcess
  /\ BiliInstallation \/ XyzInstallation \/ YtInstallation
  /\ syncsLeft = [c \in SyncCallers |-> IF c = "timer" THEN 1 ELSE 0]

NextSync ==
  \/ \E c \in SyncCallers : BiliStart(c)
  \/ \E c \in SyncCallers : BiliGetCookie(c)
  \/ \E c \in SyncCallers : BiliFetchPage(c)
  \/ \E c \in SyncCallers : BiliFetchFails(c)
  \/ \E c \in SyncCallers : BiliFetchAuthError(c)
  \/ \E c \in SyncCallers : BiliRefreshAndRetry(c)
  \/ \E c \in SyncCallers : XyzStart(c)
  \/ \E c \in SyncCallers : XyzInitRefresh(c)
  \/ \E c \in SyncCallers : XyzFetchPage(c)
  \/ \E c \in SyncCallers : XyzFetchFails(c)
  \/ \E c \in SyncCallers : XyzFetchAuthError(c)
  \/ \E c \in SyncCallers : XyzRefresh(c)
  \/ \E c \in SyncCallers : YtStart(c)
  \/ \E c \in SyncCallers : YtGetCookie(c)
  \/ \E c \in SyncCallers : YtSync(c)
  \/ \E c \in SyncCallers : YtFetchFails(c)
  \/ Elapse

SpecSync == InitSync /\ [][NextSync]_vars

\* ---- one caller, one sync() after the other, from a new installation ----

NewInstallation ==
  \/ /\ BiliInstallation
     /\ cloudEnabled
     /\ staticCookie["bilibili"] = EmptyString
     /\ store = OtherPlatformRows
  \/ /\ XyzInstallation
     /\ xyzCfg.refreshToken # NoToken
     /\ Len(xyzRemote) <= 2
     /\ ~xyzTrailingKey
     /\ xyzLastSyncTime = 0
     /\ store = {}
  \/ YtInstallation

InitRepeat ==
  /\ FreshProcess
  /\ NewInstallation
  /\ syncsLeft = [c \in SyncCallers |-> IF c = "timer" THEN MaxSyncs ELSE 0]

SpecRepeat == InitRepeat /\ [][NextSync]_vars

\* ---- Bilibili alone ----

NextBili ==
  \/ \E c \in SyncCallers : BiliStart(c)
  \/ \E c \in SyncCallers : BiliGetCookie(c)
  \/ \E c \in SyncCallers : BiliFetchPage(c)
  \/ \E c \in SyncCallers : BiliFetchFails(c)
  \/ \E c \in SyncCallers : BiliFetchAuthError(c)
  \/ \E c \in SyncCallers : BiliRefreshAndRetry(c)

\* Page lengths of the long histories: single records, and pages around the
\* threshold.
StreamPageLens == {1, DupThreshold - 1, DupThreshold}

\* Positions whose record can be missing from the store (a new record).
FreshPositions == {1, DupThreshold, 2 * DupThreshold}

\* Number of records of a history cut into pages of the given lengths.
RECURSIVE StreamLength(_)
StreamLength(lens) == IF lens = <<>> THEN 0 ELSE Head(lens) + StreamLength(Tail(lens))

ThresholdInstallation ==
  /\ enabled = Only({"bilibili"})
  /\ cloudEnabled = TRUE
  /\ staticCookie = [p \in CookiePlatforms |-> EmptyString]
  /\ ccDomain = {"bilibili"}
  /\ \E lens \in SeqsUpTo(StreamPageLens, MaxStreamPages), fresh \in SUBSET FreshPositions :
       /\ biliRemote = Paginate("stream", lens, 0)
       /\ biliRepeats = FALSE
       /\ store = {Row(i, "bilibili", 10) : i \in (1..StreamLength(lens)) \ fresh}
  /\ NoXiaoyuzhou /\ NoYouTube

InitThreshold ==
  /\ FreshProcess
  /\ ThresholdInstallation
  /\ syncsLeft = [c \in SyncCallers |-> IF c = "timer" THEN 1 ELSE 0]

SpecThreshold == InitThreshold /\ [][NextBili]_vars

\* ---- syncHistory ----

OrchInstallation ==
  /\ enabled \in {Only({"bilibili", "youtube"}), Only({"bilibili"}), Only({"youtube"})}
  /\ cloudEnabled \in BOOLEAN
  /\ staticCookie \in [CookiePlatforms -> {EmptyString, <<<<"SESSDATA", "s0">>>>}]
  /\ staticCookie["youtube"] = EmptyString
  /\ ccDomain = {"bilibili", "youtube"}
  /\ biliRemote \in {r \in BiliRemotes : Len(r) <= 1}
  /\ biliRepeats = FALSE
  /\ ytRemote \in YtFeeds
  /\ ytFirstSyncCount \in 1..2
  /\ ytLastSyncTime = 0
  /\ store = {}
  /\ NoXiaoyuzhou

InitOrch ==
  /\ FreshProcess
  /\ OrchInstallation
  /\ syncsLeft = [c \in SyncCallers |-> 0]

NextOrch ==
  \/ \E platform \in {"all", "bilibili", "youtube"} : SyncHistoryStart(platform)
  \/ SyncHistoryResume
  \/ \E c \in SyncCallers : BiliGetCookie(c)
  \/ \E c \in SyncCallers : BiliFetchPage(c)
  \/ \E c \in SyncCallers : BiliFetchFails(c)
  \/ \E c \in SyncCallers : BiliFetchAuthError(c)
  \/ \E c \in SyncCallers : BiliRefreshAndRetry(c)
  \/ \E c \in SyncCallers : YtGetCookie(c)
  \/ \E c \in SyncCallers : YtSync(c)
  \/ \E c \in SyncCallers : YtFetchFails(c)

SpecOrch == InitOrch /\ [][NextOrch]_vars

\* ---- two callers whose syncs overlap, and deletes ----

\* Ids the delete route is called with.
DeletableIds == {1, 2}

\* Bilibili with the cloud source as its only cookie source.
CloudBilibili ==
  /\ BiliInstallation
  /\ cloudEnabled
  /\ staticCookie["bilibili"] = EmptyString

OverlapInstallation ==
  \/ CloudBilibili
  \/ /\ XyzInstallation
     /\ xyzCfg.accessToken # NoToken /\ xyzCfg.refreshToken # NoToken
  \/ YtInstallation

InitOverlap ==
  /\ FreshProcess
  /\ OverlapInstallation
  /\ syncsLeft = [c \in SyncCallers |-> 1]

NextOverlap ==
  \/ \E c \in SyncCallers : BiliStart(c)
  \/ \E c \in SyncCallers : BiliGetCookie(c)
  \/ \E c \in SyncCallers : BiliFetchPage(c)
  \/ \E c \in SyncCallers : XyzStart(c)
  \/ \E c \in SyncCallers : XyzFetchPage(c)
  \/ \E c \in SyncCallers : YtStart(c)
  \/ \E c \in SyncCallers : YtGetCookie(c)
  \/ \E c \in SyncCallers : YtSync(c)
  \/ \E id \in DeletableIds : DeleteHistory(id)

SpecOverlap == InitOverlap /\ [][NextOverlap]_vars

\* ---- token handling of the podcast provider, over restarts ----

\* accessToken, refreshToken and deviceId of config.json, each configured or not.
TokenConfigs == [accessToken : {NoToken, 1}, refreshToken : {NoToken, 1}, deviceId : {NoToken, 1}]

\* The token state file an earlier process can have left: it always holds the
\* device id that process used.
TokenFiles ==
  {NoTokenFile} \cup
  [present : {TRUE}, accessToken : {NoToken, 2}, refreshToken : {NoToken, 2}, deviceId : {2}]

TokenInstallation ==
  /\ enabled = Only({"xiaoyuzhou"})
  /\ cloudEnabled = FALSE
  /\ staticCookie = [p \in CookiePlatforms |-> EmptyString]
  /\ ccDomain = {"bilibili"}
  /\ xyzCfg \in TokenConfigs
  /\ xyzFile \in TokenFiles
  /\ xyzRemote = Paginate("distinct", <<1>>, 0)
  /\ xyzTrailingKey = FALSE
  /\ xyzMaxPages = 20
  /\ xyzLastSyncTime = 0
  /\ store = {}
  /\ NoBilibili /\ NoYouTube

InitTokens ==
  /\ ProcessStart
  /\ cache = [p \in CookiePlatforms |-> NoEntry]
  /\ TokenInstallation
  /\ syncsLeft = [c \in SyncCallers |-> 1]

NextTokens ==
  \/ \E c \in SyncCallers : XyzStart(c)
  \/ \E c \in SyncCallers : XyzInitRefresh(c)
  \/ \E c \in SyncCallers : XyzFetchPage(c)
  \/ \E c \in SyncCallers : XyzFetchFails(c)
  \/ \E c \in SyncCallers : XyzFetchAuthError(c)
  \/ \E c \in SyncCallers : XyzRefresh(c)
  \/ Restart

SpecTokens == InitTokens /\ [][NextTokens]_vars


\* ---- the sync state files of the three providers that keep one ----

SyncStateInstallation ==
  /\ enabled = Only({"xiaoyuzhou", "youtube", "youtube-cdp"})
  /\ cloudEnabled = TRUE
  /\ staticCookie = [p \in CookiePlatforms |-> EmptyString]
  /\ ccDomain = {"bilibili", "youtube"}
  /\ xyzCfg = [accessToken |-> 1, refreshToken |-> 1, deviceId |-> 1]
  /\ xyzFile = NoTokenFile
  /\ xyzRemote \in {Paginate("distinct", lens, 0) : lens \in {<<>>, <<1>>}}
  /\ xyzTrailingKey = FALSE
  /\ xyzMaxPages = 20
  /\ xyzLastSyncTime = 0
  /\ ytRemote \in {f \in YtFeeds : Len(f) <= 1}
  /\ ytFirstSyncCount = 1
  /\ ytLastSyncTime = 0
  /\ store = {}
  /\ NoBilibili

InitSyncState ==
  /\ ProcessStart
  /\ cache = [p \in CookiePlatforms |-> NoEntry]
  /\ SyncStateInstallation
  /\ syncsLeft = [c \in SyncCallers |-> IF c = "timer" THEN MaxSyncs - 1 ELSE 0]

NextSyncState ==
  \/ \E c \in SyncCallers : XyzStart(c)
  \/ \E c \in SyncCallers : XyzFetchPage(c)
  \/ \E c \in SyncCallers : XyzFetchFails(c)
  \/ \E c \in SyncCallers : YtStart(c)
  \/ \E c \in SyncCallers : YtGetCookie(c)
  \/ \E c \in SyncCallers : YtSync(c)
  \/ \E c \in SyncCallers : YtFetchFails(c)
  \/ \E c \in SyncCallers : CdpStart(c)
  \/ CdpSync
  \/ CdpFails
  \/ Elapse

SpecSyncState == InitSyncState /\ [][NextSyncState]_vars

\* ---- deletion of stored records ----

\* The rows the table can hold when a delete request comes in; id 1 is stored
\* under two platforms.
DeleteRows ==
  {Row(1, "bilibili", StartTime - 1), Row(1, "youtube", StartTime - 1),
   Row(2, "youtube", StartTime - 1), Row(3, "xiaoyuzhou", StartTime - 1)}

\* Ids the delete route is called with: stored ones and one that never is.
DeleteIds == {1, 2, 3, 4}

DeleteInstallation ==
  /\ enabled \in {Only(S) : S \in SUBSET {"bilibili", "youtube", "youtube-cdp"}}
  /\ cloudEnabled \in BOOLEAN
  /\ staticCookie \in [CookiePlatforms -> {EmptyString, <<<<"SESSDATA", "s0">>>>,
                                           <<<<"SESSDATA", "s0">>, <<"bili_jct", "j0">>>>}]
  /\ staticCookie["youtube"] = EmptyString
  /\ ccDomain = {"bilibili", "youtube"}
  /\ store \in SUBSET DeleteRows
  /\ NoBilibili /\ NoXiaoyuzhou /\ NoYouTube

InitDelete ==
  /\ FreshProcess
  /\ DeleteInstallation
  /\ syncsLeft = [c \in SyncCallers |-> 0]

NextDelete ==
  \/ \E id \in DeleteIds : DeleteRequest(id)
  \/ DeleteBiliGetCookie
  \/ DeleteBiliPostOk
  \/ DeleteBiliPostFails
  \/ DeleteBiliPostAuthError
  \/ \E name \in Unimplemented, item \in DeleteRows : CallDeleteRemote(name, item)

SpecDelete == InitDelete /\ [][NextDelete]_vars

\* ---- Bilibili syncs of a history that changes between them ----

\* Between two syncs the remote history becomes another one: records were
\* watched again, were removed, or fell out of the list.
RemoteChanges ==
  /\ \A c \in SyncCallers : ~Busy(c)
  /\ \E c \in SyncCallers : brun[c].pc = "done" /\ syncsLeft[c] > 0
  /\ biliRemote' \in BiliRemotes \ {biliRemote}
  /\ UNCHANGED <<enabled, biliRepeats, xyzRemote, xyzTrailingKey, xyzCfg, xyzMaxPages,
                 ytRemote, ytFirstSyncCount>>
  /\ UNCHANGED <<cookieVars, syncVars>>

InitViewTime ==
  /\ FreshProcess
  /\ CloudBilibili
  /\ \A r \in store : r.platform # "bilibili"
  /\ syncsLeft = [c \in SyncCallers |-> IF c = "timer" THEN MaxSyncs - 1 ELSE 0]

NextViewTime ==
  \/ NextBili
  \/ RemoteChanges

SpecViewTime == InitViewTime /\ [][NextViewTime]_vars

\* ---- the password gate ----

\* config.auth: with or without password, lockout after 1..MaxCfgAttempts
\* failures, for one or two clock steps.
AuthConfigs ==
  [password : {"", "pw"}, maxAttempts : 1..MaxCfgAttempts, lockoutDuration : {1, 2}]

InitAuth ==
  /\ now = StartTime /\ ticks = 0 /\ calls = 0 /\ lastGet = NoObservation
  /\ brun = [c \in SyncCallers |-> IdleBiliRun]
  /\ xrun = [c \in SyncCallers |-> IdleXyzRun]
  /\ yrun = [c \in SyncCallers |-> IdleYtRun]
  /\ xyzTok = NoTokens /\ xyzSeen = NothingSeen /\ xyzFile = NoTokenFile
  /\ crun = IdleCdpRun /\ cdpLastSyncTime = 0 /\ del = IdleDelete
  /\ req = IdleRequest /\ lookup = NoLookup /\ parse = NoParse /\ tmpFiles = {}
  /\ authErrs = 0 /\ netErrs = 0 /\ orch = IdleOrch
  /\ last = [c \in SyncCallers |-> "none"]
  /\ syncsLeft = [c \in SyncCallers |-> 0]
  /\ cache = [p \in CookiePlatforms |-> NoEntry]
  /\ enabled = Only({})
  /\ cloudEnabled = FALSE
  /\ staticCookie = [p \in CookiePlatforms |-> EmptyString]
  /\ ccDomain = {"bilibili"}
  /\ store = {}
  /\ NoBilibili /\ NoXiaoyuzhou /\ NoYouTube
  /\ \E config \in AuthConfigs : auth = AuthStart(config)

NextAuth ==
  \/ \E ip \in Clients, input \in Passwords : AuthVerify(ip, input)
  \/ \E ip \in Clients : AuthStatus(ip)
  \/ \E ip \in Clients, token \in Passwords : AuthProtected(ip, token)
  \/ Elapse

SpecAuth == InitAuth /\ [][NextAuth]_vars

\* ---- the auto-sync timers and the manual sync of all platforms ----

TimerPlatforms == {"bilibili", "youtube", "youtube-cdp", "xiaoyuzhou"}

TimerInstallation ==
  /\ enabled \in [ProviderNames -> BOOLEAN]
  /\ cloudEnabled = TRUE
  /\ staticCookie = [p \in CookiePlatforms |-> EmptyString]
  /\ ccDomain = {"bilibili", "youtube"}
  /\ biliRemote \in {r \in BiliRemotes : Len(r) <= 1}
  /\ biliRepeats = FALSE
  /\ ytRemote \in YtFeeds
  /\ ytFirstSyncCount = 2
  /\ ytLastSyncTime = 0
  /\ store = {}
  /\ xyzRemote = <<>>
  /\ xyzTrailingKey = FALSE
  /\ xyzCfg = [accessToken |-> 1, refreshToken |-> 1, deviceId |-> 1]
  /\ xyzMaxPages = 20
  /\ xyzLastSyncTime = 0

InitTimers ==
  /\ FreshProcess
  /\ TimerInstallation
  /\ syncsLeft = [c \in SyncCallers |-> 0]

NextTimers ==
  \/ \E name \in TimerPlatforms : AutoSyncTimerFires(name)
  \/ SyncHistoryStart("all")
  \/ SyncHistoryResume
  \/ \E c \in SyncCallers : BiliGetCookie(c)
  \/ \E c \in SyncCallers : BiliFetchPage(c)
  \/ \E c \in SyncCallers : BiliFetchFails(c)
  \/ \E c \in SyncCallers : YtGetCookie(c)
  \/ \E c \in SyncCallers : YtSync(c)
  \/ \E c \in SyncCallers : YtFetchFails(c)
  \/ CdpSync
  \/ CdpFails

SpecTimers == InitTimers /\ [][NextTimers]_vars

\* ---- the walks of the scraper-driven and the browser-automation provider ----

\* Rows earlier syncs can have stored for two videos, before or at the time of
\* the last sync.
WalkRows == {Row(id, "youtube", t) : id \in 1..2, t \in {StartTime - 20, StartTime - 15}}

\* The tables made of these rows: one row for a video at most.
WalkStores ==
  {st \in SUBSET WalkRows : \A r1 \in st, r2 \in st : r1.id = r2.id => r1 = r2}

WalkInstallation ==
  /\ cloudEnabled = TRUE
  /\ staticCookie = [p \in CookiePlatforms |-> EmptyString]
  /\ ccDomain = {"bilibili", "youtube"}
  /\ store \in WalkStores
  /\ NoBilibili /\ NoXiaoyuzhou
  /\ \/ /\ enabled = Only({"youtube"})
        /\ ytRemote \in YtFeeds
        /\ ytFirstSyncCount \in 1..2
        /\ ytLastSyncTime \in {0, StartTime - 15}
        /\ cdpLastSyncTime = 0
     \/ /\ enabled = Only({"youtube-cdp"})
        /\ NoYouTube
        /\ cdpLastSyncTime \in {0, StartTime - 15}

InitWalk ==
  /\ ProcessObjects
  /\ cache = [p \in CookiePlatforms |-> NoEntry]
  /\ xyzFile = NoTokenFile
  /\ WalkInstallation
  /\ syncsLeft = [c \in SyncCallers |-> IF c = "timer" THEN 1 ELSE 0]

NextWalk ==
  \/ \E c \in SyncCallers : YtStart(c)
  \/ \E c \in SyncCallers : YtGetCookie(c)
  \/ \E c \in SyncCallers : YtSync(c)
  \/ \E c \in SyncCallers : YtFetchFails(c)
  \/ \E c \in SyncCallers : CdpStart(c)
  \/ CdpSyncAny
  \/ CdpFails

SpecWalk == InitWalk /\ [][NextWalk]_vars

\* ---- Bilibili histories and tables with the descriptive columns ----

\* Raw records with a title: video 1 shows up with two view times.
WriteRecords ==
  {[oid |-> 1, view_at |-> 10, title |-> "t1"], [oid |-> 2, view_at |-> 20, title |-> "t2"],
   [oid |-> 1, view_at |-> 30, title |-> "t1"]}

\* Rows an earlier sync recorded, under the titles the videos had then.
WriteRows ==
  {[id |-> 1, platform |-> "bilibili", viewTime |-> 10, title |-> "old1", timestamp |-> 1],
   [id |-> 2, platform |-> "bilibili", viewTime |-> 20, title |-> "old2", timestamp |-> 1],
   [id |-> 1, platform |-> "youtube", viewTime |-> 10, title |-> "other", timestamp |-> 1]}

WriteInstallation ==
  /\ enabled = Only({"bilibili"})
  /\ cloudEnabled = FALSE
  /\ staticCookie = [p \in CookiePlatforms |->
                       IF p = "bilibili" THEN <<<<"SESSDATA", "s0">>>> ELSE EmptyString]
  /\ ccDomain = {"bilibili"}
  /\ store \in SUBSET WriteRows
  /\ biliRemote \in SeqsUpTo(SeqsUpTo(WriteRecords, MaxPageLen) \ {<<>>}, MaxBiliPages)
  /\ biliRepeats = FALSE
  /\ NoXiaoyuzhou /\ NoYouTube

InitWrite ==
  /\ FreshProcess
  /\ WriteInstallation
  /\ syncsLeft = [c \in SyncCallers |-> IF c = "timer" THEN 1 ELSE 0]

NextWrite ==
  \/ \E c \in SyncCallers : BiliStart(c)
  \/ \E c \in SyncCallers : BiliGetCookie(c)
  \/ \E c \in SyncCallers : BiliFetchPage(c)

SpecWrite == InitWrite /\ [][NextWrite]_vars

\* ---- Bilibili pages with a record the table cannot take ----

\* Raw records: video 3 comes without a title.
BatchRecords ==
  {[oid |-> 1, view_at |-> 30, title |-> "t1"], [oid |-> 2, view_at |-> 20, title |-> "t2"],
   [oid |-> 3, view_at |-> 10, title |-> Undefined]}

\* Rows an earlier sync recorded.
BatchRows ==
  {[id |-> 1, platform |-> "bilibili", viewTime |-> 10, title |-> "old1", timestamp |-> 1],
   [id |-> 3, platform |-> "bilibili", viewTime |-> 10, title |-> "old3", timestamp |-> 1]}

BatchInstallation ==
  /\ enabled = Only({"bilibili"})
  /\ cloudEnabled = FALSE
  /\ staticCookie = [p \in CookiePlatforms |->
                       IF p = "bilibili" THEN <<<<"SESSDATA", "s0">>>> ELSE EmptyString]
  /\ ccDomain = {"bilibili"}
  /\ store \in SUBSET BatchRows
  /\ biliRemote \in SeqsUpTo(SeqsUpTo(BatchRecords, MaxBatchLen) \ {<<>>}, MaxBiliPages)
  /\ biliRepeats = FALSE
  /\ NoXiaoyuzhou /\ NoYouTube

InitBatch ==
  /\ FreshProcess
  /\ BatchInstallation
  /\ syncsLeft = [c \in SyncCallers |-> 1]

NextBatch ==
  \/ \E c \in SyncCallers : BiliStart(c)
  \/ \E c \in SyncCallers : BiliGetCookie(c)
  \/ \E c \in SyncCallers : BiliFetchPage(c)

SpecBatch == InitBatch /\ [][NextBatch]_vars

\* ---- logical requests of the providers ----

InitRetry ==
  /\ FreshProcess
  /\ enabled = Only({"bilibili", "xiaoyuzhou"})
  /\ cloudEnabled = FALSE
  /\ staticCookie = [p \in CookiePlatforms |-> EmptyString]
  /\ ccDomain = {"bilibili"}
  /\ store = {}
  /\ NoBilibili /\ NoXiaoyuzhou /\ NoYouTube
  /\ syncsLeft = [c \in SyncCallers |-> 0]

NextRetry ==
  \/ \E provider \in {"bilibili", "xiaoyuzhou"} : FetchWithRetry(provider)
  \/ \E status \in HttpStatuses : FetchResolves(status)
  \/ FetchRejects
  \/ SleepEnds

SpecRetry == InitRetry /\ [][NextRetry]_vars

\* ---- domain lookups in a decrypted CookieCloud payload ----

InitLookup ==
  /\ FreshProcess
  /\ enabled = Only({"bilibili"})
  /\ cloudEnabled = TRUE
  /\ staticCookie = [p \in CookiePlatforms |-> EmptyString]
  /\ ccDomain = {"bilibili"}
  /\ store = {}
  /\ NoBilibili /\ NoXiaoyuzhou /\ NoYouTube
  /\ syncsLeft = [c \in SyncCallers |-> 0]

\* The one lookup of a behaviour, on any payload and for any domain
LookupOnce ==
  /\ ~lookup.called
  /\ \E cookieData \in CookieDatas, domain \in DomainNames :
       GetCookiesForDomain(cookieData, domain)

NextLookup == LookupOnce

SpecLookup == InitLookup /\ [][NextLookup]_vars

\* ---- day headers read at different times ----

\* The headers: single words, month and day, month, day and year.
DateStrings ==
  [word : {"Today", "Yesterday", "Sunday", "Monday", "Tuesday", "Wednesday",
           "Thursday", "Friday", "Saturday", "Someday"}]
  \cup [month : {"Jan", "Feb", "Mar", "Apr", "May", "Jun", "Jul", "Aug", "Sep",
                 "Oct", "Nov", "Dec", "Foo"},
        day : 1..MaxDayOfMonth]
  \cup [month : {"Feb", "Dec"}, day : {15, 29}, year : {2024}]

\* The local times of the calls: early and late on days of 2024 and 2025.
NowTimes ==
  {[day |-> newDate(y, m, d), hour |-> h] :
     y \in {2024, 2025}, m \in 0..11, d \in {1, 10, 26, 28, 29}, h \in {0, 23}}

\* config.providers['youtube-cdp'].timezoneOffset
ConfiguredOffsets == {0, 8, -5}

InitDates ==
  /\ FreshProcess
  /\ enabled = Only({"youtube-cdp"})
  /\ cloudEnabled = FALSE
  /\ staticCookie = [p \in CookiePlatforms |-> EmptyString]
  /\ ccDomain = {"bilibili"}
  /\ store = {}
  /\ NoBilibili /\ NoXiaoyuzhou /\ NoYouTube
  /\ syncsLeft = [c \in SyncCallers |-> 0]

\* The one call of a behaviour, with any header at any of the times
ParseOnce ==
  /\ ~parse.called
  /\ \E dateStr \in DateStrings, nowDate \in NowTimes, configured \in ConfiguredOffsets :
       ParseDateString(dateStr, nowDate, cdpTimezoneOffset(configured))

NextDates == ParseOnce

SpecDates == InitDates /\ [][NextDates]_vars

\* ---- Bilibili syncs against a server that may never end its stream ----

LoopInstallation ==
  /\ enabled = Only({"bilibili"})
  /\ cloudEnabled = FALSE
  /\ staticCookie = [p \in CookiePlatforms |->
                       IF p = "bilibili" THEN <<<<"SESSDATA", "s0">>>> ELSE EmptyString]
  /\ ccDomain = {"bilibili"}
  /\ store \in {OtherPlatformRows \cup rows : rows \in SUBSET InitialRows}
  /\ biliRemote \in BiliRemotes
  /\ biliRepeats \in BOOLEAN
  /\ NoXiaoyuzhou /\ NoYouTube

InitLoop ==
  /\ FreshProcess
  /\ LoopInstallation
  /\ syncsLeft = [c \in SyncCallers |-> 1]

NextLoop ==
  \/ \E c \in SyncCallers : BiliStart(c)
  \/ \E c \in SyncCallers : BiliGetCookie(c)
  \/ \E c \in SyncCallers : BiliFetchPage(c)

\* The continuations of a sync that has been started run whenever they can.
SpecLoop ==
  /\ InitLoop /\ [][NextLoop]_vars
  /\ \A c \in SyncCallers : WF_vars(BiliGetCookie(c)) /\ WF_vars(BiliFetchPage(c))

\* ---- a podcast sync that fails, then a second one ----

\* xiaoyuzhou alone with a usable access token; a sync can fail at any request,
\* the remote list stays as it is.
ResumeInstallation ==
  /\ XyzInstallation
  /\ xyzCfg.accessToken # NoToken

InitResume ==
  /\ FreshProcess
  /\ ResumeInstallation
  /\ syncsLeft = [c \in SyncCallers |-> 1]

\* The manual sync is asked for once the timer's sync has failed.
ResumeStart == xrun["timer"].pc = "failed" /\ XyzStart("manual")

NextResume ==
  \/ XyzStart("timer")
  \/ ResumeStart
  \/ \E c \in SyncCallers : XyzFetchPage(c)
  \/ \E c \in SyncCallers : XyzFetchFails(c)

SpecResume == InitResume /\ [][NextResume]_vars

\* ---- all four providers on one table ----

\* Video 1 recorded under each platform value by earlier syncs.
FrameRows ==
  {Row(1, "bilibili", 10), Row(1, "xiaoyuzhou", StartTime - 1), Row(1, "youtube", StartTime - 20)}

\* Every provider enabled, with short remote histories that name video 1.
FrameInstallation ==
  /\ enabled \in {Only(ProviderNames \ S) : S \in SUBSET {"youtube-cdp"}}
  /\ cloudEnabled = TRUE
  /\ staticCookie = [p \in CookiePlatforms |-> EmptyString]
  /\ ccDomain = {"bilibili", "youtube"}
  /\ biliRemote \in {r \in BiliRemotes : Len(r) = 1}
  /\ biliRepeats = FALSE
  /\ xyzCfg = [accessToken |-> 1, refreshToken |-> 1, deviceId |-> 1]
  /\ xyzRemote = Paginate("distinct", <<3>>, 0)
  /\ xyzTrailingKey = FALSE
  /\ xyzMaxPages = 20
  /\ xyzLastSyncTime = 0
  /\ ytRemote \in {f \in YtFeeds : Len(f) = 2}
  /\ ytFirstSyncCount = 2
  /\ ytLastSyncTime \in {0, StartTime - 15}
  /\ store \in {FrameRows \ rows : rows \in SUBSET {Row(1, "youtube", StartTime - 20)}}

InitFrame ==
  /\ ProcessObjects
  /\ cache = [p \in CookiePlatforms |-> NoEntry]
  /\ xyzFile = NoTokenFile
  /\ cdpLastSyncTime = 0
  /\ FrameInstallation
  /\ syncsLeft = [c \in SyncCallers |-> IF c = "timer" THEN 2 ELSE 0]

NextFrame ==
  \/ \E c \in SyncCallers : BiliStart(c)
  \/ \E c \in SyncCallers : BiliGetCookie(c)
  \/ \E c \in SyncCallers : BiliFetchPage(c)
  \/ \E c \in SyncCallers : XyzStart(c)
  \/ \E c \in SyncCallers : XyzFetchPage(c)
  \/ \E c \in SyncCallers : YtStart(c)
  \/ \E c \in SyncCallers : YtGetCookie(c)
  \/ \E c \in SyncCallers : YtSync(c)
  \/ \E c \in SyncCallers : CdpStart(c)
  \/ CdpSync

SpecFrame == InitFrame /\ [][NextFrame]_vars
(***************************************************************************)
(* Claims about the credential store                                       *)
(***************************************************************************)

\* The expiry the freshness check works with: the recorded expiry, or one default
\* TTL after the entry was cached when no expiry is recorded.
EffectiveExpiry(e) == IF e.expires # 0 THEN e.expires ELSE e.cachedAt + 86400

\* C9 (as stated): with the cloud source enabled, getCredential serves the cached
\* credential without contacting the cloud exactly when an entry exists and its
\* recorded expiry minus 300 s has not elapsed, so a served credential has at
\* least 300 s left before its recorded expiry.  (Stated for entries that hold a
\* credential, i.e. a non-empty cookie string.)
C9_AsStated ==
  (/\ lastGet.called /\ cloudEnabled /\ ~lastGet.force
   /\ lastGet.before.present => lastGet.before.cookie # EmptyString) =>
     /\ (lastGet.fromCache /\ ~lastGet.contacted)
          <=> (lastGet.before.present /\ lastGet.at <= lastGet.before.expires - 300)
     /\ lastGet.fromCache => lastGet.before.expires - lastGet.at >= 300

\* C9 (amended): the credential is served from the cache, without contacting the
\* cloud, exactly when an entry with a non-empty credential exists and the clock is
\* not past its expiry minus 300 s, the expiry being the recorded one or, when none
\* is recorded, cachedAt + 24 h; with a recorded expiry at least 300 s are left.
C9_CacheFreshness ==
  (lastGet.called /\ cloudEnabled /\ ~lastGet.force) =>
     /\ lastGet.fromCache
          <=> /\ lastGet.before.present
              /\ lastGet.before.cookie # EmptyString
              /\ lastGet.at <= EffectiveExpiry(lastGet.before) - 300
     /\ lastGet.fromCache =>
          /\ ~lastGet.contacted
          /\ ~lastGet.threw
          /\ lastGet.val = lastGet.before.cookie
          /\ lastGet.before.expires # 0 => lastGet.before.expires - lastGet.at >= 300

\* C9 witness: a credential was served from the cache at the very last second of
\* its freshness window (recorded expiry exactly 300 s ahead).
C9_Witness ==
  /\ lastGet.called /\ cloudEnabled /\ lastGet.fromCache
  /\ lastGet.before.expires - lastGet.at = 300

\* C10 (as stated): with the cloud source disabled or failing, getCredential
\* returns the static credential, or fails when there is none; it never returns
\* an empty credential.
C10_CredentialFallback ==
  lastGet.called =>
     /\ (~cloudEnabled \/ (~lastGet.fromCache /\ lastGet.cloudFailed)) =>
          IF staticCookie[lastGet.platform] # EmptyString
          THEN ~lastGet.threw /\ lastGet.val = staticCookie[lastGet.platform]
          ELSE lastGet.threw
     /\ ~lastGet.threw => lastGet.val # EmptyString

C12_InvalidateFrame ==
  [][/\ UNCHANGED <<cloudEnabled, staticCookie, ccDomain>>
     /\ (lastGet' = lastGet /\ cache' # cache) =>
          \E p \in CookiePlatforms :
            cache[p].present /\ cache' = [cache EXCEPT ![p] = NoEntry]
     /\ (lastGet' # lastGet) =>
          \A q \in CookiePlatforms \ {lastGet'.platform} : cache'[q] = cache[q]]_vars

\* The first call was an invalidation of the Bilibili entry, and the YouTube
\* entry of the cache file is still there.
C12_Witness ==
  /\ calls = 1 /\ lastGet = NoObservation
  /\ ~cache["bilibili"].present
  /\ cache["youtube"].present /\ cache["youtube"].cachedAt = StartTime - 1

(***************************************************************************)
(* Claims about the provider syncs                                         *)
(***************************************************************************)

\* C1 (as stated): for every provider, a sync() that follows a successful sync()
\* of the same provider, with the remote history unchanged in between, returns
\* newCount = 0 and updateCount = 0 and leaves the stored records as they were.
C1_Idempotence ==
  \A c \in SyncCallers :
    /\ (brun[c].pc = "done" /\ brun[c].prevOk)
         => (brun[c].newCount = 0 /\ brun[c].updateCount = 0 /\ ~brun[c].changed)
    /\ (xrun[c].pc = "done" /\ xrun[c].prevOk)
         => (xrun[c].newCount = 0 /\ xrun[c].updateCount = 0 /\ ~xrun[c].changed)
    /\ (yrun[c].pc = "done" /\ yrun[c].prevOk)
         => (yrun[c].newCount = 0 /\ yrun[c].updateCount = 0 /\ ~yrun[c].changed)

\* C2: whatever syncs of one provider overlap and whatever is deleted in between,
\* no two stored rows share id and platform, and no sync fails on a primary-key
\* violation.
C2_CompositeKeyUniqueness ==
  /\ \A r1 \in store, r2 \in store :
       (r1.id = r2.id /\ r1.platform = r2.platform) => r1 = r2
  /\ \A c \in SyncCallers : brun[c].stop # "constraint"

\* Two Bilibili syncs are both past their first page, have handled a common id,
\* and one of them inserted a row.
C2_Witness ==
  /\ brun["timer"].pc = "fetch" /\ brun["timer"].page > 1
  /\ brun["manual"].pc = "fetch" /\ brun["manual"].page > 1
  /\ brun["timer"].processedIds \cap brun["manual"].processedIds # {}
  /\ brun["timer"].newCount > 0

\* The set of the names kept in `providers`
ProvidersSet == {providers[i] : i \in 1..Len(providers)}

\* Sum of newCount over the providers whose sync() succeeded
RECURSIVE SumNewSucceeded(_)
SumNewSucceeded(names) ==
  IF names = <<>> THEN 0
  ELSE (IF runOf(Head(names)).pc = "done" THEN runOf(Head(names)).newCount ELSE 0)
       + SumNewSucceeded(Tail(names))

\* Sum of updateCount over the providers whose sync() succeeded
RECURSIVE SumUpdateSucceeded(_)
SumUpdateSucceeded(names) ==
  IF names = <<>> THEN 0
  ELSE (IF runOf(Head(names)).pc = "done" THEN runOf(Head(names)).updateCount ELSE 0)
       + SumUpdateSucceeded(Tail(names))

\* C3: syncHistory() for all providers never throws; when it returns, sync() was
\* invoked on every enabled provider, results holds for each of them its counts
\* or an error, and the totals are the sums over the providers that succeeded.
C3_FailureIsolation ==
  /\ orch.pc # "threw"
  /\ (orch.pc = "returned" /\ orch.platform = "all") =>
       /\ orch.invoked = ProvidersSet
       /\ {r.name : r \in orch.results} = ProvidersSet
       /\ \A r \in orch.results :
            /\ r.error = (runOf(r.name).pc = "failed")
            /\ ~r.error => /\ r.newCount = runOf(r.name).newCount
                           /\ r.updateCount = runOf(r.name).updateCount
       /\ orch.totalNew = SumNewSucceeded(providers)
       /\ orch.totalUpdate = SumUpdateSucceeded(providers)

\* syncHistory() has returned after the Bilibili sync failed and the YouTube sync,
\* invoked after it, stored new records.
C3_Witness ==
  /\ orch.pc = "returned" /\ orch.platform = "all"
  /\ providers = <<"bilibili", "youtube">>
  /\ brun[OrchCaller].pc = "failed"
  /\ yrun[OrchCaller].pc = "done" /\ yrun[OrchCaller].newCount > 0

\* The remote answered the first request with an auth error and every later
\* request successfully.
OnlyFirstAuth(log) ==
  /\ Len(log) >= 1
  /\ log[1] = "auth"
  /\ \A i \in 2..Len(log) : log[i] \notin {"auth", "error"}

\* C4 (as stated): after an auth error on the first request and success on all
\* later ones the sync succeeds, having refreshed exactly once, before the retry.
C4_AsStated ==
  \A c \in SyncCallers :
    /\ (OnlyFirstAuth(brun[c].log) /\ brun[c].stop \notin {"cookie", "config"}) =>
         /\ brun[c].pc # "failed"
         /\ brun[c].pc = "done" =>
              (Count(brun[c].log, "refresh") = 1 /\ brun[c].log[2] = "refresh")
    /\ (OnlyFirstAuth(xrun[c].log) /\ Count(xrun[c].log, "refreshFailed") = 0) =>
         /\ xrun[c].pc # "failed"
         /\ xrun[c].pc = "done" => (xrun[c].refreshes = 1 /\ xrun[c].log[2] = "refresh")

\* C4: when the refresh is possible and yields a credential (Bilibili: the cloud
\* source is enabled; podcast: the token refresh succeeds), an auth error on the
\* first request followed by successful answers makes the sync succeed with
\* exactly one refresh after the auth error, made before the retried request;
\* a podcast sync that started without access token refreshed once more while
\* initialising its tokens; a Bilibili sync without cloud source fails at once
\* without refreshing.
C4_AuthRetrySuccess ==
  \A c \in SyncCallers :
    /\ (OnlyFirstAuth(brun[c].log) /\ brun[c].stop \notin {"cookie", "config"}) =>
         IF canRefreshFromCloud
         THEN /\ brun[c].pc # "failed"
              /\ brun[c].pc = "done" =>
                   (Count(brun[c].log, "refresh") = 1 /\ brun[c].log[2] = "refresh")
         ELSE brun[c].pc = "failed" /\ brun[c].log = <<"auth">>
    /\ (OnlyFirstAuth(xrun[c].log) /\ Count(xrun[c].log, "refreshFailed") = 0) =>
         /\ xrun[c].pc # "failed"
         /\ xrun[c].pc = "done" =>
              /\ Count(xrun[c].log, "refresh") = 1 /\ xrun[c].log[2] = "refresh"
              /\ xrun[c].refreshes = 1 + (IF xrun[c].initRefresh THEN 1 ELSE 0)

\* A podcast sync has succeeded after an auth error on its first request, and
\* stored records fetched with the retried request.
C4_Witness ==
  \E c \in SyncCallers :
    /\ xrun[c].pc = "done"
    /\ OnlyFirstAuth(xrun[c].log)
    /\ Len(xrun[c].log) >= 4
    /\ xrun[c].newCount > 0

\* No refresh is attempted twice for one page request.
OneRefreshPerPage(log) ==
  \A i \in 1..Len(log), j \in 1..Len(log) :
    (i < j /\ log[i] \in {"refresh", "refreshFailed"} /\ log[j] \in {"refresh", "refreshFailed"})
      => \E k \in i..j : log[k] = "ok"

\* C5 (as stated): an auth error after the refresh fails the sync at once, and one
\* sync() performs at most one refresh and one re-invocation, on whatever page.
C5_AsStated ==
  \A c \in SyncCallers :
    /\ Count(brun[c].log, "refresh") <= 1
    /\ Count(xrun[c].log, "refresh") + Count(xrun[c].log, "refreshFailed") <= 1

\* C5: an auth error that follows the refresh (Bilibili: anywhere in the retried
\* sync; podcast: on the retried request) fails the sync with that auth error as
\* its last request; a Bilibili sync() refreshes and re-invokes itself at most
\* once, a podcast sync() refreshes and retries at most once per page request.
C5_AuthRetryFailure ==
  \A c \in SyncCallers :
    /\ Count(brun[c].log, "refresh") <= 1
    /\ \A i \in 1..Len(brun[c].log), j \in 1..Len(brun[c].log) :
         (i < j /\ brun[c].log[i] = "refresh" /\ brun[c].log[j] = "auth") =>
           (j = Len(brun[c].log) /\ brun[c].pc = "failed" /\ brun[c].stop = "auth")
    /\ OneRefreshPerPage(xrun[c].log)
    /\ \A i \in 1..Len(xrun[c].log) - 1 :
         (xrun[c].log[i] = "refresh" /\ xrun[c].log[i + 1] = "auth") =>
           (i + 1 = Len(xrun[c].log) /\ xrun[c].pc = "failed" /\ xrun[c].stop = "auth")

\* A Bilibili sync refreshed after an auth error, got past the first page with
\* the new credential and then failed on a second auth error.
C5_Witness ==
  \E c \in SyncCallers :
    /\ brun[c].pc = "failed" /\ brun[c].stop = "auth"
    /\ Count(brun[c].log, "refresh") = 1
    /\ brun[c].page > 1

\* The eids of a page (records without eid have none)
Eids(page) == {page[i].eid : i \in 1..Len(page)} \ {0}

\* Position of the first record of a page whose eid is in ids; 0 if there is none.
FirstStored(page, ids) ==
  LET hits == {i \in 1..Len(page) : page[i].eid # 0 /\ page[i].eid \in ids}
  IN IF hits = {} THEN 0 ELSE CHOOSE i \in hits : \A j \in hits : i <= j

StoredEids(st) == {r.id : r \in {q \in st : q.platform = "xiaoyuzhou"}}

\* An incremental sync whose page 1 holds no stored id and whose page 2 holds one.
C6Case(x) ==
  /\ x.pc \in {"fetch", "refresh", "done", "failed"}
  /\ x.stop \notin {"config", "token"}
  /\ ~x.isFirstSync
  /\ Len(xyzRemote) >= 2
  /\ FirstStored(xyzRemote[1], StoredEids(x.before)) = 0
  /\ FirstStored(xyzRemote[2], StoredEids(x.before) \cup Eids(xyzRemote[1])) # 0

\* The rows such a sync is to insert: page 1, and page 2 up to the stored id.
C6Expected(x) ==
  LET k == FirstStored(xyzRemote[2], StoredEids(x.before) \cup Eids(xyzRemote[1]))
      prefix == SubSeq(xyzRemote[2], 1, k - 1)
  IN {Row(e, "xiaoyuzhou", x.currentTime) :
        e \in (Eids(xyzRemote[1]) \cup Eids(prefix)) \ StoredEids(x.before)}

\* C6: an incremental podcast sync whose page 2 holds a stored id stores the new
\* records of page 1 and those of page 2 before that id, nothing at or after it,
\* and requests two pages, never a third.
C6_IncrementalStop ==
  \A c \in SyncCallers :
    C6Case(xrun[c]) =>
      /\ xrun[c].pagesFetched <= 2
      /\ xrun[c].inserted \subseteq C6Expected(xrun[c])
      /\ xrun[c].pc = "done" =>
           /\ xrun[c].pagesFetched = 2
           /\ xrun[c].inserted = C6Expected(xrun[c])
           /\ store = xrun[c].before \cup C6Expected(xrun[c])

\* Such a sync has ended; the remote has a third page, and page 2 has records
\* before and after the stored id.
C6_Witness ==
  \E c \in SyncCallers :
    /\ C6Case(xrun[c])
    /\ xrun[c].pc = "done"
    /\ Len(xyzRemote) >= 3
    /\ FirstStored(xyzRemote[2], StoredEids(xrun[c].before) \cup Eids(xyzRemote[1])) \in
         2..(Len(xyzRemote[2]) - 1)
    /\ Cardinality(xrun[c].inserted) >= 2

\* C7: a first podcast sync against a remote with more pages than maxPages
\* requests at most maxPages pages, exactly maxPages when it completes, and it
\* completes unless a request fails.
C7_FirstSyncCap ==
  \A c \in SyncCallers :
    (xrun[c].isFirstSync /\ Len(xyzRemote) > xyzMaxPages) =>
      /\ xrun[c].pagesFetched <= xyzMaxPages
      /\ xrun[c].pc = "done" => (xrun[c].pagesFetched = xyzMaxPages /\ xrun[c].stop = "cap")
      /\ xrun[c].pc = "failed" => xrun[c].stop \in {"error", "auth", "refresh"}

\* A first sync has completed at the cap of two pages, one of them fetched with
\* a retried request.
C7_Witness ==
  \E c \in SyncCallers :
    /\ xrun[c].isFirstSync /\ Len(xyzRemote) > xyzMaxPages
    /\ xrun[c].pc = "done" /\ xrun[c].stop = "cap"
    /\ xyzMaxPages = 2
    /\ Count(xrun[c].log, "refresh") = 1

\* C8 (as stated): once DupThreshold consecutive fetched records were neither new
\* nor updated, no further page is fetched; and the sync does not halt on the
\* threshold before that many consecutive unchanged records.
C8_DuplicateThreshold ==
  \A c \in SyncCallers :
    /\ ~brun[c].fetchedPast
    /\ brun[c].stop = "threshold" => brun[c].streak >= DupThreshold


(***************************************************************************)
(* Claims about the podcast provider's tokens                              *)
(***************************************************************************)

\* Some history request of the running process has been answered.
HistoryRequested == \E c \in SyncCallers : xrun[c].pagesFetched > 0

\* After a load that left no access token but a refresh token, no history
\* request is sent before a token refresh has returned.
RefreshBeforeRequests ==
  (xyzSeen.loaded.called /\ needsInitRefresh(xyzSeen.loaded.tok) /\ HistoryRequested)
    => xyzSeen.lastRefresh.called

\* C13 (as stated): _initTokens takes each of accessToken, refreshToken and
\* deviceId from the token state file when it is there and from config.json only
\* otherwise, and refreshes before any history request when it is left without
\* access token but with a refresh token.
C13_AsStated ==
  /\ xyzSeen.loaded.called =>
       LET file == xyzSeen.loaded.file
           tok == xyzSeen.loaded.tok
       IN /\ tok.accessToken = OrElse(file.accessToken, xyzCfg.accessToken)
          /\ tok.refreshToken = OrElse(file.refreshToken, xyzCfg.refreshToken)
          /\ (file.deviceId # NoToken \/ xyzCfg.deviceId # NoToken) =>
               tok.deviceId = OrElse(file.deviceId, xyzCfg.deviceId)
  /\ RefreshBeforeRequests

\* C13: _initTokens takes accessToken and refreshToken from the token state file
\* when they are there and from config.json otherwise; the device id is the
\* configured one, else the one of the state file, else a generated one; and
\* when the load leaves no access token but a refresh token, a token refresh
\* has returned before any history request is sent.
C13_TokenInit ==
  /\ xyzSeen.loaded.called =>
       LET file == xyzSeen.loaded.file
           tok == xyzSeen.loaded.tok
       IN /\ tok.accessToken = OrElse(file.accessToken, xyzCfg.accessToken)
          /\ tok.refreshToken = OrElse(file.refreshToken, xyzCfg.refreshToken)
          /\ xyzCfg.deviceId # NoToken => tok.deviceId = xyzCfg.deviceId
          /\ (xyzCfg.deviceId = NoToken /\ file.deviceId # NoToken) =>
               tok.deviceId = file.deviceId
          /\ (xyzCfg.deviceId = NoToken /\ file.deviceId = NoToken) =>
               tok.deviceId \in {8, 9}
  /\ RefreshBeforeRequests

\* The tokens were loaded from a state file with a refresh token and no access
\* token while config.json holds another refresh token; the refresh of
\* _initTokens succeeded with the refresh token of the file, and a history
\* request has been answered.
C13_Witness ==
  /\ xyzSeen.loaded.called
  /\ xyzSeen.loaded.file.present
  /\ xyzSeen.loaded.file.refreshToken = 2 /\ xyzSeen.loaded.file.accessToken = NoToken
  /\ xyzCfg.refreshToken = 1 /\ xyzCfg.accessToken = NoToken
  /\ xyzSeen.loaded.tok.refreshToken = 2
  /\ needsInitRefresh(xyzSeen.loaded.tok)
  /\ xyzSeen.lastRefresh.called /\ xyzSeen.lastRefresh.returned
  /\ \E c \in SyncCallers : xrun[c].pc = "done" /\ xrun[c].newCount > 0

C14_WitnessFailure ==
  /\ xyzSeen.lastRefresh.called /\ ~xyzSeen.lastRefresh.returned
  /\ xyzSeen.lastRefresh.tokBefore.accessToken # NoToken
  /\ \E c \in SyncCallers : xrun[c].stop = "refresh"

\* C15 (as stated): when config.json has no device id, a device id is generated
\* at most once per installation and every request carries the same device id,
\* over restarts and whether or not the first token refresh failed.
C15_DeviceIdStability ==
  xyzCfg.deviceId = NoToken =>
    /\ xyzSeen.generated <= 1
    /\ Cardinality(xyzSeen.used) <= 1

(***************************************************************************)
(* Claims about the sync state files                                       *)
(***************************************************************************)

\* C16 (as stated): a sync() of the podcast, the yt-dlp or the browser provider
\* that returns, completely or stopped early, has written lastSyncTime when it
\* returns, and no step makes the lastSyncTime of a sync state file smaller.
C16_SyncState ==
  [][/\ \A c \in SyncCallers :
          (RunActive(xrun[c].pc) /\ xrun'[c].pc = "done") => xyzLastSyncTime' = now
     /\ \A c \in SyncCallers :
          (RunActive(yrun[c].pc) /\ yrun'[c].pc = "done") => ytLastSyncTime' = now
     /\ (RunActive(crun.pc) /\ crun'.pc = "done") => crun'.saved
     /\ xyzLastSyncTime' >= xyzLastSyncTime
     /\ ytLastSyncTime' >= ytLastSyncTime
     /\ cdpLastSyncTime' >= cdpLastSyncTime]_vars

(***************************************************************************)
(* Claims about deletion                                                   *)
(***************************************************************************)

\* The initialised providers whose platform value is that of the item.
MatchingProviders(item) == {name \in ProvidersSet : platformOf(name) = item.platform}

\* The delete route found the record it was asked to delete.
RouteFoundItem == del.via = "route" /\ del.item # NoItem

\* C17: deleteRemoteHistory(record) calls deleteRemote on exactly one
\* initialised provider whose platform value is record.platform, under whatever
\* name it is registered, and on no provider of another platform value; when no
\* initialised provider has that platform value it throws and calls none.
C17_DeleteDelegation ==
  RouteFoundItem =>
    /\ \A name \in del.called : name \in MatchingProviders(del.item)
    /\ MatchingProviders(del.item) # {} =>
         /\ Cardinality(del.called) = 1
         /\ del.outcome # "noprovider"
    /\ MatchingProviders(del.item) = {} =>
         /\ del.called = {}
         /\ del.outcome = "noprovider"
         /\ del.requests = 0

\* A record of platform youtube was handed to the provider registered as
\* youtube-cdp, the only one enabled for that platform value.
C17_Witness ==
  /\ RouteFoundItem
  /\ del.item.platform = "youtube"
  /\ ~enabled["youtube"] /\ enabled["youtube-cdp"]
  /\ del.called = {"youtube-cdp"}
  /\ del.pc = "responded"

\* C18: deleteRemote of a provider without remote deletion (YouTube,
\* Xiaoyuzhou, YouTube-CDP) returns false, does not throw, sends no request to
\* the remote and leaves the table as it was.
C18_UnimplementedDelete ==
  (del.called \cap Unimplemented # {}) =>
    /\ del.outcome = "false"
    /\ del.requests = 0
    /\ del.afterRemote = del.before

\* The delete route called deleteRemote of the browser provider for a stored
\* record and went on to answer.
C18_Witness ==
  /\ RouteFoundItem
  /\ del.called = {"youtube-cdp"}
  /\ del.item \in del.before
  /\ del.outcome = "false"
  /\ del.status = 200

\* deleteRemote of the podcast provider was called on the provider itself.
C18_WitnessDirect ==
  /\ del.via = "xiaoyuzhou"
  /\ del.called = {"xiaoyuzhou"}
  /\ del.outcome = "false"
  /\ del.item \in store

\* C19: a delete request for a stored id attempts the remote deletion while the
\* local record is still there and then deletes the local rows of that id,
\* whether the remote deletion returned true or false, threw, or found no
\* provider; a delete request for an id that is not stored is answered with 404,
\* leaves the table as it is and calls no provider.
C19_DeleteAction ==
  /\ (del.via = "route" /\ DeleteActive(del.pc)) =>
       /\ del.item \in store
       /\ store = del.before
  /\ (del.via = "route" /\ del.pc = "responded") =>
       IF \A r \in del.before : r.id # del.id
       THEN /\ del.status = 404
            /\ store = del.before
            /\ del.called = {}
            /\ del.requests = 0
            /\ del.outcome = "none"
       ELSE /\ del.status = 200
            /\ del.outcome \in {"true", "false", "threw", "noprovider"}
            /\ del.afterRemote = del.before
            /\ store = {r \in del.before : r.id # del.id}

\* The remote deletion of a Bilibili record threw after its retry, and the
\* local record is gone.
C19_Witness ==
  /\ RouteFoundItem
  /\ del.pc = "responded"
  /\ del.item.platform = "bilibili"
  /\ del.outcome = "threw"
  /\ del.isRetry
  /\ del.requests = 2
  /\ del.item \in del.before
  /\ del.item \notin store

\* The remote deletion of a Bilibili record succeeded.
C19_WitnessTrue ==
  /\ RouteFoundItem /\ del.pc = "responded" /\ del.outcome = "true" /\ del.item \notin store

\* No provider is enabled for the record's platform.
C19_WitnessNoProvider ==
  /\ RouteFoundItem /\ del.pc = "responded" /\ del.outcome = "noprovider"
  /\ del.item \notin store

\* The id is not stored.
C19_WitnessMissing ==
  /\ del.via = "route" /\ del.pc = "responded" /\ del.status = 404 /\ store # {}

(***************************************************************************)
(* Claims about stored records over syncs                                  *)
(***************************************************************************)

\* C20 (as stated): no step of a sync removes the row of an (id, platform) or
\* turns it into a row of another id or platform, and the view time of a
\* stored row only ever becomes larger.
C20_ViewTimeUpward ==
  [][\A r \in store :
       /\ \E q \in store' : q.id = r.id /\ q.platform = r.platform
       /\ \A q \in store' :
            (q.id = r.id /\ q.platform = r.platform) => q.viewTime >= r.viewTime]_vars

(***************************************************************************)
(* Claims about the password gate                                          *)
(***************************************************************************)

\* The lockout rule on the requests of the given routes: a request of a locked
\* address is answered 429 whatever it carries; a failed verification that does
\* not lock is answered 401 with the attempts left counted from the last
\* success or the last expired lockout; a successful one is answered 200.
LockoutRule(routes) ==
  (/\ auth.last.called /\ auth.last.route \in routes /\ auth.config.password # ""
   /\ auth.last.route = "protected" => auth.last.input # "") =>
    LET l == auth.last
        cfg == auth.config
    IN /\ l.lockedOnArrival => l.status = 429
       /\ (l.route = "verify" /\ ~l.lockedOnArrival /\ l.input # cfg.password) =>
            IF l.failsAfter >= cfg.maxAttempts
            THEN l.status \in {401, 429}
            ELSE l.status = 401 /\ l.remainingAttempts = cfg.maxAttempts - l.failsAfter
       /\ (l.route = "verify" /\ ~l.lockedOnArrival /\ l.input = cfg.password) =>
            l.status = 200 /\ auth.expected[l.ip] = NoFailures

\* C21 (as stated): after maxAttempts failed verifications in a row from an
\* address, every request of that address that presents a password, to the
\* verification route or to a protected route, is answered 429 until
\* lockoutDuration has passed; after that the failures are counted from zero; a
\* successful verification resets the count.
C21_LoginLockout == LockoutRule({"verify", "protected"})

(***************************************************************************)
(* Claims about the dispatch of syncHistory                                *)
(***************************************************************************)

\* A platform is enabled and its configuration is valid.
EnabledAndValid(name) ==
  IF name = "xiaoyuzhou" THEN xyzValidateConfig
  ELSE enabled[name] /\ validConfig(name)

\* The providers a call syncHistory(platform) is to run
Designated(platform) ==
  {name \in TimerPlatforms : EnabledAndValid(name) /\ platform \in {"all", name}}

\* C22 (as stated): syncHistory(name) invokes sync() exactly once on the enabled
\* provider(s) that name designates and on no other provider, and syncHistory()
\* without a filter invokes sync() exactly once on every enabled provider; so
\* when the auto-sync timer of an enabled and valid platform has fired and
\* syncHistory has returned, that platform's sync() has been run.
C22_SyncDispatch ==
  orch.pc = "returned" =>
    /\ \A name \in Designated(orch.platform) : Count(orch.syncCalls, name) = 1
    /\ \A i \in 1..Len(orch.syncCalls) : orch.syncCalls[i] \in Designated(orch.platform)

(***************************************************************************)
(* Claims about the walk over the fetched records                          *)
(***************************************************************************)

\* Number of pages of the podcast history a sync has received and handled
xyzPagesHandled(run) == Count(run.log, "ok")

\* C23: in a podcast first sync a stored id never stops the walk; the sync
\* goes on to the next page unless the page cap is reached or the server
\* reported no more data (an empty page or no loadMoreKey), and every record
\* with an id in the pages handled so far is stored.
C23_FirstSyncSkips ==
  \A c \in SyncCallers :
    LET run == xrun[c]
        n == xyzPagesHandled(run)
    IN run.isFirstSync =>
         /\ ~run.shouldStop /\ run.stop # "existing"
         /\ run.pc = "done" =>
              (n = xyzMaxPages \/ ~xyzNextKey(n) \/ xyzPage(n) = <<>>)
         /\ (run.pc = "fetch" /\ n > 0) =>
              (n < xyzMaxPages /\ xyzNextKey(n) /\ xyzPage(n) # <<>>)
         /\ \A k \in 1..n : \A i \in 1..Len(xyzPage(k)) :
              xyzPage(k)[i].eid # 0 => hasRow(store, xyzPage(k)[i].eid, "xiaoyuzhou")

\* A first sync has ended after two pages or more; the first page held an id
\* stored before the sync and a later record that the sync inserted.
C23_Witness ==
  \E c \in SyncCallers :
    LET run == xrun[c]
    IN /\ run.isFirstSync /\ run.pc = "done" /\ xyzPagesHandled(run) >= 2
       /\ \E i \in 1..Len(xyzPage(1)) : \E j \in 1..Len(xyzPage(2)) :
            /\ hasRow(run.before, xyzPage(1)[i].eid, "xiaoyuzhou")
            /\ \E r \in run.inserted : r.id = xyzPage(2)[j].eid

\* The ids of a fetched list, in the order of the list
IdsOf(list) == [i \in 1..Len(list) |-> list[i].id]

\* The stored viewTime the walk finds for the record at position i: that of the
\* row stored before the sync, else that of the first earlier record of the
\* list with the same id when the walk writes as it goes, else 0 (not stored).
FoundViewTime(list, i, before, writesAsItGoes) ==
  LET rows == {r \in before : r.id = list[i].id /\ r.platform = "youtube"}
      earlier == {j \in 1..(i - 1) : list[j].id = list[i].id}
  IN IF rows # {} THEN (CHOOSE r \in rows : TRUE).viewTime
     ELSE IF writesAsItGoes /\ earlier # {}
     THEN list[CHOOSE j \in earlier : \A k \in earlier : j <= k].viewTime
     ELSE 0

\* Position of the first record that is already stored with viewTime >=
\* lastSyncTime (incremental syncs only); Len(list) + 1 when there is none.
StoppingRecord(list, before, isFirstSync, lastSyncTime, writesAsItGoes) ==
  LET stops == {i \in 1..Len(list) :
                  /\ ~isFirstSync /\ list[i].id # 0
                  /\ FoundViewTime(list, i, before, writesAsItGoes) # 0
                  /\ FoundViewTime(list, i, before, writesAsItGoes) >= lastSyncTime}
  IN IF stops = {} THEN Len(list) + 1
     ELSE CHOOSE i \in stops : \A k \in stops : i <= k

\* The walk over a list left the table as the rule says: every record with an
\* id before the stopping record is stored, every row written belongs to a
\* record before the stopping record, and no row stored before was touched.
WalkedAsRuled(list, before, after, stop) ==
  /\ \A i \in 1..(stop - 1) : list[i].id # 0 => hasRow(after, list[i].id, "youtube")
  /\ \A r \in after \ before :
       \E i \in 1..(stop - 1) : list[i].id = r.id /\ ~hasRow(before, r.id, "youtube")
  /\ before \subseteq after

\* C24: a sync of the scraper-driven or the browser-automation provider that
\* has walked its list stopped at the first record already stored with stored
\* viewTime >= lastSyncTime, passed over stored records with an older viewTime,
\* inserted every not yet stored record before the stopping record and none
\* after it; a first sync of the scraper-driven provider asks for at most
\* firstSyncCount records and inserts at most that many.
C24_IncrementalWalk ==
  /\ \A c \in SyncCallers :
       LET run == yrun[c]
       IN (run.pc = "done" /\ run.stop = "end") =>
            /\ WalkedAsRuled(run.entries, run.before, run.after,
                             StoppingRecord(run.entries, run.before, run.isFirstSync,
                                            run.lastSyncTime, FALSE))
            /\ run.isFirstSync =>
                 /\ run.limit = ytFirstSyncCount
                 /\ Len(run.entries) <= ytFirstSyncCount
                 /\ Cardinality(run.after \ run.before) <= ytFirstSyncCount
  /\ (crun.pc = "done" /\ crun.stop \in {"end", "existing"}) =>
       LET stop == StoppingRecord(crun.items, crun.before, crun.isFirstSync,
                                  crun.lastSyncTime, TRUE)
       IN /\ WalkedAsRuled(crun.items, crun.before, crun.after, stop)
          /\ (crun.stop = "existing") = (stop <= Len(crun.items))

\* An incremental sync of the browser-automation provider has passed over a
\* record stored before the last sync, inserted the next record, and stopped at
\* the third, stored at the time of the last sync.
C24_Witness ==
  LET stop == StoppingRecord(crun.items, crun.before, crun.isFirstSync,
                             crun.lastSyncTime, TRUE)
  IN /\ crun.pc = "done" /\ ~crun.isFirstSync /\ crun.stop = "existing"
     /\ stop = 3 /\ Len(crun.items) = 3
     /\ hasRow(crun.before, crun.items[1].id, "youtube")
     /\ ~hasRow(crun.before, crun.items[2].id, "youtube")
     /\ hasRow(crun.after, crun.items[2].id, "youtube")

\* An incremental sync of the scraper-driven provider has passed over a record
\* stored before the last sync and stopped at the second, stored at the time of
\* the last sync; the third record was not stored and is not stored now.
C24_WitnessScraper ==
  \E c \in SyncCallers :
    LET run == yrun[c]
        stop == StoppingRecord(run.entries, run.before, run.isFirstSync,
                               run.lastSyncTime, FALSE)
    IN /\ run.pc = "done" /\ ~run.isFirstSync /\ run.stop = "end"
       /\ stop = 2 /\ Len(run.entries) = 3
       /\ hasRow(run.before, run.entries[1].id, "youtube")
       /\ run.entries[3].id # 0
       /\ ~hasRow(run.after, run.entries[3].id, "youtube")

\* A first sync of the scraper-driven provider of a history longer than
\* firstSyncCount has inserted firstSyncCount records.
C24_WitnessFirstSync ==
  \E c \in SyncCallers :
    /\ yrun[c].pc = "done" /\ yrun[c].isFirstSync
    /\ Len(ytRemote) > ytFirstSyncCount
    /\ Cardinality(yrun[c].after \ yrun[c].before) = ytFirstSyncCount

(***************************************************************************)
(* Claims about the writes to the history table                            *)
(***************************************************************************)

\* The write rule applied to one fetched record: w = [store, newCount, updateCount]
RuleOnRecord(w, raw, t) ==
  LET rows == {r \in w.store : r.id = raw.oid /\ r.platform = "bilibili"}
  IN IF rows = {}
     THEN [w EXCEPT !.store = @ \cup {[id |-> raw.oid, platform |-> "bilibili",
                                       viewTime |-> raw.view_at, title |-> raw.title,
                                       timestamp |-> t]},
                    !.newCount = @ + 1]
     ELSE IF \E r \in rows : r.viewTime # raw.view_at
     THEN [w EXCEPT !.store = (@ \ rows) \cup
                       {[r EXCEPT !.viewTime = raw.view_at, !.timestamp = t] : r \in rows},
                    !.updateCount = @ + 1]
     ELSE w

\* The write rule applied to the records of a list, one after the other
RECURSIVE RuleOnList(_, _, _)
RuleOnList(w, list, t) ==
  IF list = <<>> THEN w ELSE RuleOnList(RuleOnRecord(w, Head(list), t), Tail(list), t)

\* The records of a list whose id was not handled earlier in the sync
RECURSIVE NotYetHandled(_, _)
NotYetHandled(list, handled) ==
  IF list = <<>> THEN <<>>
  ELSE IF Head(list).oid \in handled THEN NotYetHandled(Tail(list), handled)
  ELSE <<Head(list)>> \o NotYetHandled(Tail(list), handled \cup {Head(list).oid})

\* A sync has received a page and written it.
PageWritten(c) ==
  /\ brun[c].pc = "fetch"
  /\ brun'[c].log = Append(brun[c].log, "ok")
  /\ biliPage(brun[c].page) # <<>>

\* The table and the counters after a page are those the rule gives on `list`.
WrittenByRule(c, list) ==
  LET w == RuleOnList([store |-> store, newCount |-> brun[c].newCount,
                       updateCount |-> brun[c].updateCount], list, now)
  IN /\ store' = w.store
     /\ brun'[c].newCount = w.newCount
     /\ brun'[c].updateCount = w.updateCount

\* C25 (as stated): every fetched record is inserted and counted in newCount when
\* absent, has viewTime and recordedAt updated and is counted in updateCount
\* when stored with another viewTime, and is left alone when stored with the
\* same viewTime.
C25_AsStated ==
  [][\A c \in SyncCallers : PageWritten(c) => WrittenByRule(c, biliPage(brun[c].page))]_vars

\* C25: the rule holds for every fetched record whose id was not handled
\* earlier in the same sync (a record whose id was handled is passed over and
\* writes nothing); an update leaves the title of the row as stored, and rows
\* of other keys are not touched.
C25_WriteRule ==
  [][\A c \in SyncCallers : PageWritten(c) =>
       /\ WrittenByRule(c, NotYetHandled(biliPage(brun[c].page), brun[c].processedIds))
       /\ \A r \in store : \E r2 \in store' :
            /\ r2.id = r.id /\ r2.platform = r.platform /\ r2.title = r.title
            /\ (r2 # r) => /\ r.platform = "bilibili"
                           /\ r2.viewTime # r.viewTime
                           /\ brun'[c].updateCount > brun[c].updateCount]_vars

\* A sync has inserted video 2 under the fetched title and updated the row of
\* video 1, stored under an older title, to the fetched viewTime.
C25_Witness ==
  \E c \in SyncCallers :
    /\ brun[c].newCount = 1 /\ brun[c].updateCount = 1
    /\ \E r \in store : r.id = 1 /\ r.platform = "bilibili" /\ r.title = "old1"
                        /\ r.viewTime = 30 /\ r.timestamp = StartTime
    /\ \E r \in store : r.id = 2 /\ r.platform = "bilibili" /\ r.title = "t2"

\* C26: no step of a sync of the podcast, the scraper-driven or the
\* browser-automation provider removes or changes a stored row, and the
\* updateCount of every such sync is 0.
C26_InsertOnlyFrame ==
  [][/\ \A r \in store : r \in store'
     /\ \A c \in SyncCallers : xrun'[c].updateCount = 0 /\ yrun'[c].updateCount = 0
     /\ crun'.updateCount = 0]_vars

\* A sync of the browser-automation provider found a video of its page stored
\* by an earlier sync, passed over it and inserted another one.
C26_Witness ==
  /\ crun.pc = "done" /\ crun.newCount = 1 /\ Len(crun.items) = 2
  /\ crun.before # {} /\ crun.before \subseteq store
  /\ \E i \in 1..2 : hasRow(crun.before, crun.items[i].id, "youtube")

(***************************************************************************)
(* Claims about requests and the CookieCloud payload                       *)
(***************************************************************************)

\* C28 (as stated): one logical request makes at most 3 transport attempts.
C28_AsStated == req.attempts <= 3

\* C28: one logical request makes at most maxRetries + 1 = 4 transport
\* attempts; every attempt but the first follows a rejected one after a sleep
\* of retryDelay; when all attempts were rejected the error surfaces after the
\* 4th; a response, whatever its status, is returned at once and never retried.
C28_RequestRetry ==
  /\ req.attempts <= maxRetries + 1
  /\ \A i \in 1..Len(req.sleeps) : req.sleeps[i] = retryDelay
  /\ req.pc \in {"fetching", "returned"} =>
       (req.attempts = req.rejections + 1 /\ Len(req.sleeps) = req.rejections)
  /\ req.pc = "threw" =>
       (req.attempts = maxRetries + 1 /\ req.rejections = req.attempts
        /\ Len(req.sleeps) = maxRetries)
  /\ \A i \in 1..Len(req.finished) :
       req.finished[i].threw => req.finished[i].attempts = maxRetries + 1

\* A request was answered with status 500 at its first attempt and returned;
\* the next one was rejected four times and threw.
C28_Witness ==
  /\ Len(req.finished) = 2
  /\ ~req.finished[1].threw /\ req.finished[1].status = 500 /\ req.finished[1].attempts = 1
  /\ req.pc = "threw" /\ req.attempts = 4 /\ req.sleeps = <<retryDelay, retryDelay, retryDelay>>

\* The keys of the latest lookup's payload that match its domain in the first,
\* the second (the domain with its leading dot taken off, or with one put in
\* front when it has none) and the third way
ExactKeys == {i \in 1..Len(lookup.cookieData) : lookup.cookieData[i].domain = lookup.domain}

VariantKeys ==
  {i \in 1..Len(lookup.cookieData) :
     IF lookup.domain[1] = "."
     THEN <<".">> \o lookup.cookieData[i].domain = lookup.domain
     ELSE lookup.cookieData[i].domain = <<".">> \o lookup.domain}

SuffixKeys ==
  {i \in 1..Len(lookup.cookieData) :
     LET k == lookup.cookieData[i].domain
         d == lookup.domain
     IN \/ Len(d) <= Len(k) /\ \A n \in 1..Len(d) : k[Len(k) - Len(d) + n] = d[n]
        \/ Len(k) <= Len(d) /\ \A n \in 1..Len(k) : d[Len(d) - Len(k) + n] = k[n]}

\* The key the three steps choose: 0 when no key matches
ChosenKey ==
  IF ExactKeys # {} THEN CHOOSE i \in ExactKeys : TRUE
  ELSE IF VariantKeys # {} THEN CHOOSE i \in VariantKeys : TRUE
  ELSE IF SuffixKeys # {} THEN CHOOSE i \in SuffixKeys : \A j \in SuffixKeys : i <= j
  ELSE 0

\* C30 (as stated): the cookies returned are those of the exact key, else of
\* the leading-dot variant, else of a suffix-matching key, and the lookup
\* fails, listing the domains, only when no key matches in any of these ways.
C30_AsStated ==
  lookup.called =>
    /\ lookup.threw <=> ChosenKey = 0
    /\ ~lookup.threw => lookup.cookies = lookup.cookieData[ChosenKey].cookies

\* C30: the lookup chooses the exact key, else the leading-dot variant, else
\* the first key in payload order that ends with the domain or that the domain
\* ends with; it returns the cookies of the chosen key when there are any, and
\* fails with the error that lists all keys of the payload when no key matches
\* or when the chosen key holds no cookie.
C30_DomainLookup ==
  lookup.called =>
    /\ lookup.threw <=> (ChosenKey = 0 \/ lookup.cookieData[ChosenKey].cookies = <<>>)
    /\ ~lookup.threw => lookup.cookies = lookup.cookieData[ChosenKey].cookies
    /\ lookup.threw => lookup.listed = ObjectKeys(lookup.cookieData)

\* The payload has a suffix-matching key first and the variant key second, and
\* the lookup of "a" returned the cookies under ".a".
C30_Witness ==
  /\ lookup.called /\ ~lookup.threw
  /\ lookup.domain = <<"a">>
  /\ Len(lookup.cookieData) = 2
  /\ lookup.cookieData[1].domain = <<"a", "a">> /\ lookup.cookieData[1].cookies = <<"c1">>
  /\ lookup.cookieData[2].domain = <<".", "a">> /\ lookup.cookieData[2].cookies = <<"c2">>
  /\ lookup.cookies = <<"c2">>

(***************************************************************************)
(* Claims about the batch written for a page and about failing syncs       *)
(***************************************************************************)

\* The records of the page a sync is about to write: those batchInsert gets
Batch(c) == NotYetHandled(biliPage(brun[c].page), brun[c].processedIds)

\* The records of the batch whose write fails: an insert of a record without
\* a title
FailingWrites(c) ==
  {i \in 1..Len(Batch(c)) :
     /\ ~hasRow(store, Batch(c)[i].oid, "bilibili")
     /\ Batch(c)[i].title = Undefined}

\* C27: the writes of one page are all-or-nothing.  When a write of the batch
\* fails the table is left as it was before the batch and the sync fails;
\* otherwise every record of the batch is stored with its view time.  The
\* table changes in no other step, so no state between two steps, which is
\* all a concurrent reader or sync can see, holds a part of a page.
C27_BatchAtomic ==
  [][/\ \A c \in SyncCallers : PageWritten(c) =>
          IF FailingWrites(c) # {}
          THEN store' = store /\ brun'[c].pc = "failed"
          ELSE /\ brun'[c].pc # "failed"
               /\ \A i \in 1..Len(Batch(c)) : \E r \in store' :
                    /\ r.id = Batch(c)[i].oid /\ r.platform = "bilibili"
                    /\ r.viewTime = Batch(c)[i].view_at
     /\ store' # store => \E c \in SyncCallers : PageWritten(c)]_vars

\* A sync failed on a first page that holds video 2, not stored before, ahead
\* of the record without a title, and the table has no row of video 2.
C27_Witness ==
  \E c \in SyncCallers :
    /\ brun[c].pc = "failed" /\ brun[c].stop = "constraint" /\ brun[c].page = 1
    /\ Len(biliRemote) >= 1 /\ Len(biliRemote[1]) = 2
    /\ biliRemote[1][1].oid = 2 /\ biliRemote[1][2].oid = 3
    /\ ~hasRow(store, 2, "bilibili") /\ ~hasRow(store, 3, "bilibili")

\* C29: a sync whose page request fails beyond recovery fails as a whole; the
\* step in which a sync fails stores nothing and removes nothing, so no record
\* of the failed page is stored and the rows written for the pages before it
\* stay in the table.
C29_MidRunFailure ==
  [][\A c \in SyncCallers :
       /\ (xrun[c].pc = "fetch" /\ xrun'[c].log = Append(xrun[c].log, "error")) =>
            xrun'[c].pc = "failed"
       /\ (brun[c].pc = "fetch" /\ brun'[c].log = Append(brun[c].log, "error")) =>
            brun'[c].pc = "failed"
       /\ (xrun[c].pc # "failed" /\ xrun'[c].pc = "failed") =>
            (store' = store /\ xrun[c].inserted \subseteq store')
       /\ (brun[c].pc # "failed" /\ brun'[c].pc = "failed") => store' = store]_vars

\* A podcast sync stored the episode of its first page and failed on the
\* request of the second: the first episode is stored, the second is not.
C29_Witness ==
  \E c \in SyncCallers :
    /\ xrun[c].pc = "failed" /\ xrun[c].stop = "error"
    /\ xrun[c].loadMoreKey = 1 /\ Len(xyzRemote) >= 2
    /\ xrun[c].inserted # {} /\ xrun[c].inserted \subseteq store
    /\ \A i \in 1..Len(xyzRemote[2]) : ~hasRow(store, xyzRemote[2][i].eid, "xiaoyuzhou")

\* A Bilibili sync stored the record of its first page and failed on the
\* request of the second.
C29_WitnessBilibili ==
  \E c \in SyncCallers :
    /\ brun[c].pc = "failed" /\ brun[c].stop = "error"
    /\ brun[c].page = 2 /\ brun[c].newCount = 1 /\ Len(biliRemote) = 2
    /\ hasRow(store, biliRemote[1][1].oid, "bilibili")
    /\ ~hasRow(store, biliRemote[2][1].oid, "bilibili")

(***************************************************************************)
(* Claims about the day headers                                            *)
(***************************************************************************)

\* The latest call read a month-and-day header / a weekday name.
ParsedMonthDay ==
  parse.called /\ IsMonthDay(parse.dateStr) /\ monthMap(parse.dateStr.month) # -1

ParsedWeekday ==
  parse.called /\ IsWord(parse.dateStr) /\ weekdayMap(parse.dateStr.word) # -1

\* The local day whose start the latest call returned
ResolvedDay == (parse.result \div 3600 + parse.timezoneOffset) \div 24

\* The day a month-and-day header names: in the current year, or in the year
\* before when the start of that day is still to come
NamedDay ==
  LET y == getFullYear(parse.now)
      m == monthMap(parse.dateStr.month)
      d == parse.dateStr.day
  IN IF newDate(y, m, d) * 24 > parse.now.day * 24 + parse.now.hour
     THEN newDate(y - 1, m, d) ELSE newDate(y, m, d)

SecondsPerYear == 366 * 86400

\* C31 (as stated): a month-and-day header resolves to that day of the current
\* year, or of the previous year when that is in the future; the result is
\* never in the future and never more than one year in the past; a weekday
\* name resolves to a day 1 to 7 days before today.
C31_AsStated ==
  /\ ParsedMonthDay =>
       /\ ResolvedDay = NamedDay
       /\ parse.result <= nowSeconds(parse.now)
       /\ parse.result >= nowSeconds(parse.now) - SecondsPerYear
  /\ ParsedWeekday => parse.now.day - ResolvedDay \in 1..7

\* C31: a month-and-day header resolves to that day of the current year, or
\* of the previous year when its start is in the future; that day is never
\* after today and less than a year before today; a weekday name resolves to
\* a day 1 to 7 days before today; the time stamp returned is the start of
\* the resolved day less timezoneOffset hours, which is not in the future
\* when the offset is not negative.
C31_PartialDate ==
  /\ ParsedMonthDay =>
       /\ ResolvedDay = NamedDay
       /\ ResolvedDay <= parse.now.day /\ ResolvedDay > parse.now.day - 366
  /\ ParsedWeekday => parse.now.day - ResolvedDay \in 1..7
  /\ (ParsedMonthDay \/ ParsedWeekday) =>
       /\ parse.result = (ResolvedDay * 24 - parse.timezoneOffset) * 3600
       /\ parse.timezoneOffset >= 0 => parse.result <= nowSeconds(parse.now)
       /\ parse.result >= nowSeconds(parse.now) - SecondsPerYear
                             - parse.timezoneOffset * 3600

\* "Jan 26" read on 2025-01-10 resolved to 2024-01-26.
C31_Witness ==
  /\ ParsedMonthDay
  /\ parse.dateStr = [month |-> "Jan", day |-> 26]
  /\ parse.now.day = newDate(2025, 0, 10)
  /\ ResolvedDay = newDate(2024, 0, 26)

\* "Sunday" read on a Sunday resolved to the Sunday a week before.
C31_WitnessWeekday ==
  /\ ParsedWeekday /\ parse.dateStr.word = "Sunday" /\ getDay(parse.now) = 0
  /\ ResolvedDay = parse.now.day - 7

(***************************************************************************)
(* Claims about the end of a Bilibili sync                                 *)
(***************************************************************************)

C32_EndingStreams ==
  \A c \in SyncCallers :
    (~biliRepeats /\ brun[c].pc \in {"cookie", "fetch"}) ~> (brun[c].pc \in {"done", "failed"})

\* A sync is still waiting for a page after MaxBiliRequests answers.
C32_StillFetching ==
  \E c \in SyncCallers :
    /\ biliRepeats /\ brun[c].pc = "fetch" /\ brun[c].page > MaxBiliRequests
    /\ brun[c].noUpdateCount < DupThreshold

\* The rows of the table that a call which started on the table `before` has
\* added, and those it has modified
RowsAdded(before) == {r \in store : ~hasRow(before, r.id, r.platform)}
RowsModified(before) == {r \in store : hasRow(before, r.id, r.platform) /\ r \notin before}

\* The counters of a finished call are the numbers of rows it added and modified.
CountsAccurate(run) ==
  run.pc = "done" =>
    /\ run.newCount = Cardinality(RowsAdded(run.before))
    /\ run.updateCount = Cardinality(RowsModified(run.before))

\* C33: the newCount a successful sync returns is the number of rows the call
\* added to the table and its updateCount the number of rows it modified, for
\* the Bilibili, the podcast and the scraper-driven provider.
C33_CountAccuracy ==
  \A c \in SyncCallers :
    CountsAccurate(brun[c]) /\ CountsAccurate(xrun[c]) /\ CountsAccurate(yrun[c])

\* The same for each provider alone
C33_Bilibili == \A c \in SyncCallers : CountsAccurate(brun[c])
C33_Xiaoyuzhou == \A c \in SyncCallers : CountsAccurate(xrun[c])
C33_YouTube == \A c \in SyncCallers : CountsAccurate(yrun[c])

(***************************************************************************)
(* Claims about the rows a delete request and a sync touch                 *)
(***************************************************************************)

\* C34: a delete request that found its record removes exactly one row, the
\* one with the (id, platform) of that record; the rows of other platforms
\* with the same id stay as they were, and the remote deletion is attempted
\* only through a provider of the platform of the removed row.
C34_DeleteOneRow ==
  (RouteFoundItem /\ del.pc = "responded" /\ del.status = 200) =>
    /\ del.before \ store = {del.item}
    /\ store \subseteq del.before
    /\ \A name \in del.called : platformOf(name) = del.item.platform

\* The same, for tables in which no id is stored under two platforms
C34_UniqueIds ==
  (RouteFoundItem /\ del.pc = "responded" /\ del.status = 200
     /\ \A r1, r2 \in del.before : r1.id = r2.id => r1 = r2) =>
    /\ del.before \ store = {del.item}
    /\ store \subseteq del.before
    /\ \A name \in del.called : platformOf(name) = del.item.platform

(***************************************************************************)
(* Podcast sync after a failed sync                                        *)
(***************************************************************************)

\* The table after a sync() that no request of which fails, from the request
\* for page k on: the while loop of XiaoyuzhouProvider.sync().
RECURSIVE xyzWholeSync(_, _, _, _)
xyzWholeSync(k, st, isFirstSync, pageCount) ==
  LET data == xyzPage(k)
      scan == xyzScanPage(data, st, isFirstSync, 0, <<>>)
      stored == xyzStorePage(st, scan.newItems)
  IN IF Len(data) = 0 THEN st
     ELSE IF ~xyzNextKey(k) \/ scan.shouldStop THEN stored
     ELSE IF xyzCapReached(isFirstSync, pageCount + 1) THEN stored
     ELSE xyzWholeSync(k + 1, stored, isFirstSync, pageCount + 1)

\* The timer's sync failed at a request after it had stored records, and the
\* manual sync began after that and ended without an error.
FailedThenSynced ==
  /\ xrun["timer"].pc = "failed" /\ xrun["timer"].stop = "error"
  /\ xrun["timer"].inserted # {}
  /\ xrun["manual"].pc = "done"
  /\ xrun["manual"].before = xrun["timer"].before \cup xrun["timer"].inserted

\* Episodes a sync without failure would have stored from the table the failed
\* sync began with.
UninterruptedEids ==
  StoredEids(xyzWholeSync(1, xrun["timer"].before, xrun["timer"].isFirstSync, 1))

\* C35: after a podcast sync that failed having stored some pages and a later
\* sync that succeeded on the unchanged remote list, every episode that one sync
\* without failure would have stored is in the table.
C35_Resumable ==
  FailedThenSynced => UninterruptedEids \subseteq StoredEids(store)

\* The same for a failed first sync only: the next sync is again a first sync,
\* skips the stored episodes and walks on.
C35_FirstSyncResumable ==
  (FailedThenSynced /\ xrun["timer"].isFirstSync) =>
    UninterruptedEids \subseteq StoredEids(store)

C35_FirstSyncCase ==
  ~(FailedThenSynced /\ xrun["timer"].isFirstSync /\ xrun["manual"].inserted # {})

(***************************************************************************)
(* What an incremental sync of the scraper-driven provider adds            *)
(***************************************************************************)

\* Positions of the fetched list whose record was stored before the sync
StoredPositions(run) ==
  {j \in 1..Len(run.entries) :
     run.entries[j].id # 0 /\ hasRow(run.before, run.entries[j].id, "youtube")}

\* Positions of the fetched list whose record the sync inserted
InsertedPositions(run) ==
  {i \in 1..Len(run.entries) : \E r \in run.after \ run.before : r.id = run.entries[i].id}

\* Every inserted record stands before every record stored before the sync.
OnlyNewer(run) ==
  \A i \in InsertedPositions(run) : \A j \in StoredPositions(run) : i < j

\* C36: every record an incremental sync of the scraper-driven provider
\* inserts precedes, in the fetched list, every record of the platform that
\* was stored before the call.
C36_OnlyNewer ==
  \A c \in SyncCallers :
    (yrun[c].pc = "done" /\ yrun[c].stop = "end" /\ ~yrun[c].isFirstSync) =>
      OnlyNewer(yrun[c])

\* The same when every row stored before the sync was recorded at or after the
\* saved lastSyncTime and the list names no video twice: the walk stops at the
\* first of them.
C36_AfterRecordingSync ==
  \A c \in SyncCallers :
    LET run == yrun[c]
    IN (/\ run.pc = "done" /\ run.stop = "end" /\ ~run.isFirstSync
        /\ \A r \in run.before : r.platform = "youtube" => r.viewTime >= run.lastSyncTime
        /\ \A i, j \in 1..Len(run.entries) :
             run.entries[i].id = run.entries[j].id => i = j) =>
         OnlyNewer(run)

(***************************************************************************)
(* Podcast tokens after a failed refresh at initialisation                 *)
(***************************************************************************)

\* C37: a sync() of the podcast provider that has a refresh token and no access
\* token asks the refresh endpoint for one before it gives up, also when an
\* earlier sync() of the same process has initialised the tokens and its
\* refresh failed.
C37_RefreshAgain ==
  \A c \in SyncCallers :
    (/\ xrun[c].pc = "failed" /\ xrun[c].stop = "token"
     /\ xyzTok.refreshToken # NoToken) => xrun[c].initRefresh

\* The sync() that initialises the tokens does ask: one that gave up for want of
\* an access token before the tokens were initialised by another call has
\* called the refresh.
C37_FirstCallRefreshes ==
  \A c \in SyncCallers :
    (/\ xrun[c].pc = "failed" /\ xrun[c].stop = "token"
     /\ xyzTok.refreshToken # NoToken
     /\ \A d \in SyncCallers \ {c} : xrun[d].pc = "idle") => xrun[c].initRefresh

(***************************************************************************)
(* The temporary cookie file of the scraper-driven provider                *)
(***************************************************************************)

\* The sync has invoked the external scraper.
ScraperInvoked(run) ==
  run.pc \in {"done", "failed"} /\ run.stop \in {"end", "empty", "error"}

\* No sync() of the scraper-driven provider is under way.
AllYtReturned == \A c \in SyncCallers : ~RunActive(yrun[c].pc)

C38_NoFileLeft == AllYtReturned => tmpFiles = {}

\* The first half for a sync that no other sync overlapped.
C38_AloneHasFile ==
  \A c \in SyncCallers :
    (ScraperInvoked(yrun[c]) /\ \A d \in SyncCallers \ {c} : yrun[d].pc = "idle") =>
      yrun[c].fileAtScraper

(***************************************************************************)
(* The rows a provider's sync writes                                       *)
(***************************************************************************)

\* The step is one of sync() of the named provider.
StepOf(name) ==
  IF name = "bilibili" THEN brun' # brun
  ELSE IF name = "xiaoyuzhou" THEN xrun' # xrun
  ELSE IF name = "youtube" THEN yrun' # yrun
  ELSE crun' # crun

\* Rows the step inserted, changed or removed
RowsTouched == (store' \ store) \cup (store \ store')

\* Enabled providers other than the named one that store under its platform value
SharingProviders(name) ==
  {q \in ProviderNames \ {name} : enabled[q] /\ platformOf(q) = platformOf(name)}

\* A step of a provider's sync() touches rows of its own platform value only.
OwnRowsOnly ==
  \A name \in ProviderNames :
    StepOf(name) => \A r \in RowsTouched : r.platform = platformOf(name)

C39_WitnessUpdate ==
  /\ brun["timer"].pc = "done" /\ brun["timer"].updateCount > 0
  /\ Row(1, "bilibili", 10) \in brun["timer"].before
  /\ Row(1, "bilibili", 10) \notin store
  /\ {Row(1, "xiaoyuzhou", StartTime - 1), Row(1, "youtube", StartTime - 20)} \subseteq store

(***************************************************************************)
(* How many wrong passwords an address can try                             *)
(***************************************************************************)

\* C40: between two lockouts an address has at most maxAttempts wrong values
\* compared with the password, the verification route and the X-Auth-Token
\* check of the protected routes counted together, and a request of a locked
\* address is answered without a comparison.
C40_BoundedGuessing ==
  auth.config.password # "" =>
    /\ \A ip \in Clients :
         auth.guesses[ip].verify + auth.guesses[ip].protected <= auth.config.maxAttempts
    /\ (auth.last.called /\ auth.last.lockedOnArrival) => ~auth.last.compared

\* The same for the verification route alone, which counts its failures.
C40_VerifyRouteBounded ==
  auth.config.password # "" =>
    /\ \A ip \in Clients : auth.guesses[ip].verify <= auth.config.maxAttempts
    /\ (auth.last.called /\ auth.last.route = "verify" /\ auth.last.lockedOnArrival) =>
         ~auth.last.compared
====
